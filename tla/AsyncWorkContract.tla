-------------------------- MODULE AsyncWorkContract --------------------------
(***************************************************************************)
(* Proofs about AsyncWork, concluded: with clients that wait for           *)
(* DataAvailable, and any number of queues that share one counter of       *)
(* pending cancelations, the only thing that goes wrong with a call is     *)
(* that its work is interrupted on behalf of another queue; other than     *)
(* that no bug is reported, and the request/notify/fetch contract (RNF) is *)
(* kept, as far as safety goes.                                            *)
(***************************************************************************)
EXTENDS AsyncWorkTracker

(* Main does not leave the main loop while it serves calls. *)
Closing == \/ pc[Main] \in {"stop", "purge", "join", "halt"}
           \/ pc[Main] \in Notifying \cup {"cancel"} /\ ret[Main] = "purge"

(* A worker cancels work only after its queue was closed. *)
Shutting(q) == \/ pc[q] \in {"purge", "exited", "cancel"}
               \/ pc[q] \in Notifying /\ ret[q] # "pop"

HandsFree ==
    /\ ~Closing => \A q \in Queues : accepting[q]
    /\ \A q \in Queues : Shutting(q) => ~accepting[q]
    /\ \A q \in Queues : pc[q] = "cancel" => ret[q] = "purge"
    /\ \A t \in Threads : pc[t] \notin Notifying \cup {"cancel"} => obj[t] = NoWork
    /\ \A q \in Queues : pc[q] \in Notifying /\ ret[q] = "pop" => obj[q] = cur[q]
    /\ ~HandlerBusy => cur[Main] = NoWork

(* Work that was asked to stop is held by its worker, and the jar drops it *)
(* before the worker takes other work.                                     *)
CancelInv ==
    \A w \in Works : cancelReq[w] =>
        /\ wstate[w] \in {"CANCELING", "CANCELED"}
        /\ w \in jar => /\ cur[QueueOf[w]] = w
                        /\ \/ pc[QueueOf[w]] \in Running
                           \/ pc[QueueOf[w]] = "notify" /\ obj[QueueOf[w]] = w
        /\ wip[QueueOf[w]] = w => cur[QueueOf[w]] = w
        /\ w \notin Elems(queue[QueueOf[w]])

(* Nobody cancels the work of the call that is being served: it stays in   *)
(* the jar, unless it is interrupted on behalf of another queue.           *)
OwnWorkIsSafe ==
    HandlerBusy /\ reply[cur[Main]] = "none" =>
        /\ ~cancelReq[cur[Main]]
        /\ wstate[cur[Main]] # "CANCELING"
        /\ \/ cur[Main] \in InterruptedForOthers
           \/ /\ wstate[cur[Main]] # "CANCELED"
              /\ promise[cur[Main]] # "INTERRUPTED"
              /\ cur[Main] \in jar

(* A fetch never fails, a call only if its work was interrupted on behalf  *)
(* of another queue.                                                       *)
NothingBroken ==
    /\ \A w \in Works : got[w] # "bad"
    /\ \A w \in Works : reply[w] = "error" => w \in InterruptedForOthers
    /\ "UNEXPECTED_FAILURE" \in bugs => \E w \in Works : reply[w] = "error"

(* Only announced results are fetched. *)
FetchedAfterSignal ==
    \A w \in Works : got[w] # "none" => reply[w] = "cookie" /\ avail[w] > 0

ContractInv ==
    /\ TrackerInv
    /\ HandsFree /\ CancelInv /\ OwnWorkIsSafe
    /\ NothingBroken /\ FetchedAfterSignal
-----------------------------------------------------------------------------

LEMMA HandsFreeNext == ContractInv /\ [Next]_vars => HandsFree'
<1> SUFFICES ASSUME TypeOK, HandsFree, [Next]_vars
             PROVE  HandsFree'
  BY DEF ContractInv, TrackerInv, QueueInv, CookieInv, AnswerInv, SignalInv, TypeInv
<1> USE ConstantsAssumption, MainIsThread DEF TypeOK, ThreadTypes, QueueTypes,
    HandsFree, Closing, Shutting, HandlerBusy, Eating, Notifying, threadVars,
    queueVars
<1>1. ASSUME NEW w \in Works, Request(w) PROVE HandsFree'
  BY <1>1 DEF Request
<1>2. ASSUME NEW w \in Works, Fetch(w) PROVE HandsFree'
  BY <1>2 DEF Fetch
<1>3. ASSUME NEW w \in Works, Abort(w) PROVE HandsFree'
  BY <1>3 DEF Abort
<1>4. CASE AddWork
  BY <1>4 DEF AddWork, Schedule, Enqueue, Accepted
<1>5. CASE AddWorkToFullQueue
  BY <1>5 DEF AddWorkToFullQueue, Schedule, Full
<1>6. CASE ReplaceWork
  BY <1>6 DEF ReplaceWork, Enqueue, Accepted
<1>7. CASE EatLookup
  BY <1>7 DEF EatLookup
<1>8. CASE EatUnknown
  BY <1>8 DEF EatUnknown, HandlerDone
<1>9. CASE StartWaiting
  BY <1>9 DEF StartWaiting
<1>10. CASE WaitEnds
  BY <1>10 DEF WaitEnds
<1>11. CASE EatResult
  BY <1>11 DEF EatResult, HandlerDone, Deliver
<1>12. CASE LockAfterTimeout
  BY <1>12 DEF LockAfterTimeout
<1>13. CASE EatQuickly
  BY <1>13 DEF EatQuickly
<1>14. CASE EatLater
  BY <1>14 DEF EatLater, HandlerDone
<1>15. CASE Collect
  BY <1>15 DEF Collect, HandlerDone, Deliver
<1>16. ASSUME NEW t \in Threads, CancelRunnable(t) PROVE HandsFree'
  BY <1>16 DEF CancelRunnable
<1>17. ASSUME NEW t \in Threads, Cancel(t) PROVE HandsFree'
  BY <1>17, ReturnToHandler DEF Cancel, Return
<1>18. ASSUME NEW t \in Threads, NotifyJar(t) PROVE HandsFree'
  BY <1>18 DEF NotifyJar
<1>19. ASSUME NEW t \in Threads, NotifyEaten(t) PROVE HandsFree'
  BY <1>19, ReturnToHandler DEF NotifyEaten, Return
<1>20. ASSUME NEW t \in Threads, NotifyBlocks(t) PROVE HandsFree'
  BY <1>20 DEF NotifyBlocks
<1>21. ASSUME NEW t \in Threads, NotifyWakesUp(t) PROVE HandsFree'
  BY <1>21 DEF NotifyWakesUp
<1>22. ASSUME NEW t \in Threads, NotifyClient(t) PROVE HandsFree'
  BY <1>22, ReturnToHandler DEF NotifyClient, Return
<1>23. ASSUME NEW t \in Threads, NEW q \in Queues, Purge(t, q) PROVE
     HandsFree'
  BY <1>23 DEF Purge
<1>24. ASSUME NEW t \in Threads, NEW q \in Queues, Purged(t, q) PROVE
     HandsFree'
  BY <1>24 DEF Purged
<1>25. ASSUME NEW q \in Queues, TakeWork(q) PROVE HandsFree'
  BY <1>25 DEF TakeWork
<1>26. ASSUME NEW q \in Queues, SkipWork(q) PROVE HandsFree'
  BY <1>26 DEF SkipWork, Advance
<1>27. ASSUME NEW q \in Queues, RunBegins(q) PROVE HandsFree'
  BY <1>27 DEF RunBegins
<1>28. ASSUME NEW q \in Queues, NEW r \in Results, DoRun(q, r) PROVE
     HandsFree'
  BY <1>28 DEF DoRun
<1>29. ASSUME NEW q \in Queues, RunEnds(q) PROVE HandsFree'
  BY <1>29 DEF RunEnds
<1>30. ASSUME NEW q \in Queues, PopWork(q) PROVE HandsFree'
  BY <1>30 DEF PopWork
<1>31. ASSUME NEW q \in Queues, WorkerStops(q) PROVE HandsFree'
  BY <1>31 DEF WorkerStops
<1>32. CASE Quit
  BY <1>32 DEF Quit
<1>33. ASSUME NEW q \in Queues, Shutdown(q) PROVE HandsFree'
  BY <1>33 DEF Shutdown
<1>34. CASE Join
  BY <1>34 DEF Join
<1>35. CASE UNCHANGED vars
  BY <1>35 DEF vars
<1>36. ASSUME NEW t \in Threads, Subroutine(t) PROVE HandsFree'
  BY <1>16, <1>17, <1>18, <1>19, <1>20, <1>21, <1>22, <1>23, <1>24, <1>36 DEF
     Subroutine
<1>37. CASE Environment
  BY <1>1, <1>2, <1>3, <1>32, <1>37 DEF Environment
<1>38. CASE MainStep
  BY <1>4, <1>5, <1>6, <1>7, <1>8, <1>9, <1>10, <1>11, <1>12, <1>13, <1>14,
     <1>15, <1>33, <1>34, <1>36, <1>38 DEF MainStep
<1>39. ASSUME NEW q \in Queues, WorkerStep(q) PROVE HandsFree'
  BY <1>25, <1>26, <1>27, <1>28, <1>29, <1>30, <1>31, <1>36, <1>39 DEF
     WorkerStep
<1> QED
  BY <1>35, <1>37, <1>38, <1>39 DEF Next

LEMMA EnqueueCancel ==
    ASSUME NEW w, NEW q, Enqueues(w, q), CancelInv, ~cancelReq[w],
           cancelReq' = cancelReq, jar' = jar
    PROVE  CancelInv'
<1>1. ASSUME NEW v \in Works, cancelReq[v]
      PROVE  /\ wip'[QueueOf[v]] = v => wip[QueueOf[v]] = v
             /\ v \notin Elems(queue'[QueueOf[v]])
  <2>1. v # w /\ QueueOf[v] \in Queues /\ v \notin Elems(queue[QueueOf[v]])
    BY <1>1, ConstantsAssumption DEF CancelInv
  <2>2. CASE QueueOf[v] = q
    BY <2>1, <2>2 DEF Enqueues
  <2>3. CASE QueueOf[v] # q
    BY <2>1, <2>3 DEF Enqueues
  <2> QED
    BY <2>2, <2>3
<1>2. \A v \in Works : QueueOf[v] \in Queues
  BY ConstantsAssumption
<1> QED
  BY <1>1, <1>2 DEF Enqueues, CancelInv

LEMMA ShrinkCancel ==
    ASSUME \A p \in Queues : Shrinks(p), CancelInv,
           wstate' = wstate, cancelReq' = cancelReq, jar' = jar,
           \A p \in Queues : pc[p] \in Running \cup {"notify"} =>
               cur'[p] = cur[p] /\ pc'[p] = pc[p] /\ obj'[p] = obj[p],
           \A p \in Queues : wip'[p] = wip[p] /\ wip[p] = cur[p] /\ wip[p] \in Works =>
               cur'[p] = cur[p]
    PROVE  CancelInv'
<1>1. ASSUME NEW v \in Works, cancelReq[v]
      PROVE  /\ wip'[QueueOf[v]] = v => wip[QueueOf[v]] = v
             /\ v \notin Elems(queue'[QueueOf[v]])
  <2>1. QueueOf[v] \in Queues /\ v \notin Elems(queue[QueueOf[v]]) /\ v # NoWork
    BY <1>1, ConstantsAssumption DEF CancelInv
  <2>2. Shrinks(QueueOf[v])
    BY <2>1
  <2> QED
    BY <2>1, <2>2 DEF Shrinks
<1>2. \A v \in Works : QueueOf[v] \in Queues
  BY ConstantsAssumption
<1> QED
  BY <1>1, <1>2 DEF CancelInv

LEMMA CancelNext == ContractInv /\ [Next]_vars => CancelInv'
<1> SUFFICES ASSUME TypeOK, HandlerHasWork, ThreadHasWork, OneNotifier,
                    PathStarted, OnePlace, NotElsewhere, StartedByWorker,
                    HandsFree, CancelInv, [Next]_vars
             PROVE  CancelInv'
  BY DEF ContractInv, TrackerInv, QueueInv, CookieInv, AnswerInv, SignalInv, TypeInv
<1> USE ConstantsAssumption, MainIsThread DEF TypeOK, ThreadTypes, QueueTypes,
    WorkTypes, CancelInv, Running, threadVars, queueVars, workVars, jarVars
<1>1. ASSUME NEW w \in Works, Request(w) PROVE CancelInv'
  BY <1>1 DEF Request, PathStarted
<1>2. ASSUME NEW w \in Works, Fetch(w) PROVE CancelInv'
  BY <1>2 DEF Fetch
<1>3. ASSUME NEW w \in Works, Abort(w) PROVE CancelInv'
  BY <1>3 DEF Abort
<1>4. CASE AddWork
  <2>1. Enqueues(cur[Main], QueueOf[cur[Main]])
    BY <1>4, HandlerEnqueues
  <2>2. NotQueuedYet /\ cancelReq' = cancelReq /\ jar' = jar
    BY <1>4 DEF AddWork, Schedule, NotQueuedYet, HandlerBusy, Eating
  <2>3. ~cancelReq[cur[Main]]
    BY <2>1, <2>2 DEF NotElsewhere, Enqueues
  <2>4. CancelInv
    OBVIOUS
  <2> HIDE DEF TypeOK, ThreadTypes, WorkTypes, QueueTypes, CancelInv
  <2> QED
    BY <2>1, <2>2, <2>3, <2>4, EnqueueCancel
<1>5. CASE AddWorkToFullQueue
  BY <1>5 DEF AddWorkToFullQueue, Schedule, Full
<1>6. CASE ReplaceWork
  <2>1. Enqueues(cur[Main], QueueOf[cur[Main]])
    BY <1>6, HandlerEnqueues
  <2>2. NotQueuedYet /\ cancelReq' = cancelReq /\ jar' = jar
    BY <1>6 DEF ReplaceWork, Schedule, NotQueuedYet, HandlerBusy, Eating
  <2>3. ~cancelReq[cur[Main]]
    BY <2>1, <2>2 DEF NotElsewhere, Enqueues
  <2>4. CancelInv
    OBVIOUS
  <2> HIDE DEF TypeOK, ThreadTypes, WorkTypes, QueueTypes, CancelInv
  <2> QED
    BY <2>1, <2>2, <2>3, <2>4, EnqueueCancel
<1>7. CASE EatLookup
  BY <1>7 DEF EatLookup
<1>8. CASE EatUnknown
  BY <1>8 DEF EatUnknown, HandlerDone
<1>9. CASE StartWaiting
  BY <1>9 DEF StartWaiting
<1>10. CASE WaitEnds
  BY <1>10 DEF WaitEnds
<1>11. CASE EatResult
  BY <1>11 DEF EatResult, HandlerDone, Deliver
<1>12. CASE LockAfterTimeout
  BY <1>12 DEF LockAfterTimeout
<1>13. CASE EatQuickly
  BY <1>13 DEF EatQuickly
<1>14. CASE EatLater
  BY <1>14 DEF EatLater, HandlerDone
<1>15. CASE Collect
  BY <1>15 DEF Collect, HandlerDone, Deliver
<1>16. ASSUME NEW t \in Threads, CancelRunnable(t) PROVE CancelInv'
  BY <1>16 DEF CancelRunnable, CancelAtOnce, ThreadHasWork
<1>17. ASSUME NEW t \in Threads, Cancel(t) PROVE CancelInv'
  BY <1>17 DEF Cancel, Return, CancelAtOnce, ThreadHasWork, StartedByWorker,
     NotStarted
<1>18. ASSUME NEW t \in Threads, NotifyJar(t) PROVE CancelInv'
  BY <1>18 DEF NotifyJar, LeavesJar, ThreadHasWork, OneNotifier, Notifying,
     Final
<1>19. ASSUME NEW t \in Threads, NotifyEaten(t) PROVE CancelInv'
  BY <1>19 DEF NotifyEaten, Return
<1>20. ASSUME NEW t \in Threads, NotifyBlocks(t) PROVE CancelInv'
  BY <1>20 DEF NotifyBlocks
<1>21. ASSUME NEW t \in Threads, NotifyWakesUp(t) PROVE CancelInv'
  BY <1>21 DEF NotifyWakesUp
<1>22. ASSUME NEW t \in Threads, NotifyClient(t) PROVE CancelInv'
  BY <1>22 DEF NotifyClient, Return
<1>23. ASSUME NEW t \in Threads, NEW q \in Queues, Purge(t, q) PROVE
     CancelInv'
  <2>1. \A p \in Queues : Shrinks(p)
    BY <1>23, WorkersShrink
  <2>2. wstate' = wstate /\ cancelReq' = cancelReq /\ jar' = jar
    BY <1>23 DEF Purge
  <2>3. ASSUME NEW p \in Queues
        PROVE  pc[p] \in Running \cup {"notify"} =>
                   cur'[p] = cur[p] /\ pc'[p] = pc[p] /\ obj'[p] = obj[p]
    BY <1>23 DEF Purge
  <2>4. ASSUME NEW p \in Queues, wip'[p] = wip[p], wip[p] = cur[p], wip[p] \in Works
        PROVE  cur'[p] = cur[p]
    BY <1>23, <2>4 DEF Purge
  <2>5. CancelInv
    OBVIOUS
  <2> HIDE DEF TypeOK, ThreadTypes, WorkTypes, QueueTypes, CancelInv
  <2> QED
    BY <2>1, <2>2, <2>3, <2>4, <2>5, ShrinkCancel
<1>24. ASSUME NEW t \in Threads, NEW q \in Queues, Purged(t, q) PROVE
     CancelInv'
  BY <1>24 DEF Purged
<1>25. ASSUME NEW q \in Queues, TakeWork(q) PROVE CancelInv'
  BY <1>25 DEF TakeWork
<1>26. ASSUME NEW q \in Queues, SkipWork(q) PROVE CancelInv'
  <2>1. \A p \in Queues : Shrinks(p)
    BY <1>26, WorkersShrink
  <2>2. wstate' = wstate /\ cancelReq' = cancelReq /\ jar' = jar
    BY <1>26 DEF SkipWork
  <2>3. ASSUME NEW p \in Queues
        PROVE  pc[p] \in Running \cup {"notify"} =>
                   cur'[p] = cur[p] /\ pc'[p] = pc[p] /\ obj'[p] = obj[p]
    BY <1>26 DEF SkipWork
  <2>4. ASSUME NEW p \in Queues, wip'[p] = wip[p], wip[p] = cur[p], wip[p] \in Works
        PROVE  cur'[p] = cur[p]
    BY <1>26, <2>4 DEF SkipWork
  <2>5. CancelInv
    OBVIOUS
  <2> HIDE DEF TypeOK, ThreadTypes, WorkTypes, QueueTypes, CancelInv
  <2> QED
    BY <2>1, <2>2, <2>3, <2>4, <2>5, ShrinkCancel
<1>27. ASSUME NEW q \in Queues, RunBegins(q) PROVE CancelInv'
  BY <1>27 DEF RunBegins, ThreadHasWork
<1>28. ASSUME NEW q \in Queues, NEW r \in Results, DoRun(q, r) PROVE
     CancelInv'
  BY <1>28 DEF DoRun
<1>29. ASSUME NEW q \in Queues, RunEnds(q) PROVE CancelInv'
  BY <1>29 DEF RunEnds, ThreadHasWork, OneNotifier
<1>30. ASSUME NEW q \in Queues, PopWork(q) PROVE CancelInv'
  <2>1. \A p \in Queues : Shrinks(p)
    BY <1>30, WorkersShrink
  <2>2. wstate' = wstate /\ cancelReq' = cancelReq /\ jar' = jar
    BY <1>30 DEF PopWork
  <2>3. ASSUME NEW p \in Queues
        PROVE  pc[p] \in Running \cup {"notify"} =>
                   cur'[p] = cur[p] /\ pc'[p] = pc[p] /\ obj'[p] = obj[p]
    BY <1>30 DEF PopWork
  <2>4. ASSUME NEW p \in Queues, wip'[p] = wip[p], wip[p] = cur[p], wip[p] \in Works
        PROVE  cur'[p] = cur[p]
    BY <1>30, <2>4, TailElems DEF PopWork, OnePlace, InPlace
  <2>5. CancelInv
    OBVIOUS
  <2> HIDE DEF TypeOK, ThreadTypes, WorkTypes, QueueTypes, CancelInv
  <2> QED
    BY <2>1, <2>2, <2>3, <2>4, <2>5, ShrinkCancel
<1>31. ASSUME NEW q \in Queues, WorkerStops(q) PROVE CancelInv'
  BY <1>31 DEF WorkerStops
<1>32. CASE Quit
  BY <1>32 DEF Quit
<1>33. ASSUME NEW q \in Queues, Shutdown(q) PROVE CancelInv'
  BY <1>33 DEF Shutdown
<1>34. CASE Join
  BY <1>34 DEF Join
<1>35. CASE UNCHANGED vars
  BY <1>35 DEF vars
<1>36. ASSUME NEW t \in Threads, Subroutine(t) PROVE CancelInv'
  BY <1>16, <1>17, <1>18, <1>19, <1>20, <1>21, <1>22, <1>23, <1>24, <1>36 DEF
     Subroutine
<1>37. CASE Environment
  BY <1>1, <1>2, <1>3, <1>32, <1>37 DEF Environment
<1>38. CASE MainStep
  BY <1>4, <1>5, <1>6, <1>7, <1>8, <1>9, <1>10, <1>11, <1>12, <1>13, <1>14,
     <1>15, <1>33, <1>34, <1>36, <1>38 DEF MainStep
<1>39. ASSUME NEW q \in Queues, WorkerStep(q) PROVE CancelInv'
  BY <1>25, <1>26, <1>27, <1>28, <1>29, <1>30, <1>31, <1>36, <1>39 DEF
     WorkerStep
<1> QED
  BY <1>35, <1>37, <1>38, <1>39 DEF Next
-----------------------------------------------------------------------------

(* A cancelation that work w may stop for: its own, that of work in Main's *)
(* hands, or that of another queue.                                        *)
Excused(w) ==
    \/ cancelReq[w]
    \/ obj[Main] \in Works /\ cancelReq[obj[Main]]
    \/ \E v \in Works : cancelReq[v] /\ Alive(v) /\ QueueOf[v] # QueueOf[w]

(* Canceled work of the same queue is not alive any more when other work   *)
(* of that queue runs, unless Main is still busy with it.                  *)
LEMMA InterruptIsExcused ==
    ASSUME ContractInv, NEW q \in Queues, DoRun(q, "INTERRUPTED")
    PROVE  Excused(cur[q])
<1>1. TypeOK /\ HandsFree /\ CancelInv /\ OwnWorkIsSafe /\ JarInv /\ PathKnown
  BY DEF ContractInv, TrackerInv, QueueInv, AnswerInv, SignalInv, TypeInv
<1>2. HandlerHasWork /\ ThreadHasWork /\ OneCallServed /\ OnePlace
  BY DEF ContractInv, TrackerInv, QueueInv, AnswerInv, SignalInv, TypeInv
<1>3. /\ pc[q] = "dorun" /\ cur[q] \in Interruptible
      /\ \E v \in Works : cancelReq[v] /\ Alive(v)
  BY DEF DoRun, CancelPending
<1>4. PICK v \in Works : cancelReq[v] /\ Alive(v)
  BY <1>3
<1> SUFFICES ASSUME v # cur[q], QueueOf[v] = QueueOf[cur[q]],
                    ~(obj[Main] \in Works /\ cancelReq[obj[Main]])
             PROVE  FALSE
  BY <1>4 DEF Excused
<1>5. cur[q] \in Works /\ QueueOf[cur[q]] = q /\ QueueOf[v] = q
  BY <1>2, <1>3 DEF ThreadHasWork, Running, OnePlace, InPlace
<1>6. /\ v \notin jar /\ wip[q] # v /\ v \notin Elems(queue[q])
      /\ wstate[v] \in {"CANCELING", "CANCELED"}
  BY <1>1, <1>4, <1>5 DEF CancelInv
<1>7. ASSUME NEW p \in Queues PROVE cur[p] # v /\ obj[p] # v /\ wip[p] # v
  <2>1. QueueOf[v] = p => p = q
    BY <1>5
  <2>2. obj[q] = NoWork
    BY <1>1, <1>3, MainIsThread DEF HandsFree, Notifying
  <2> QED
    BY <1>2, <1>6, <2>1, <2>2, ConstantsAssumption DEF OnePlace, InPlace
<1>8. ASSUME NEW p \in Queues, NEW i \in 1..Len(queue[p]) PROVE queue[p][i] # v
  <2>1. queue[p][i] \in Elems(queue[p])
    BY DEF Elems
  <2> QED
    BY <1>2, <1>5, <1>6, <2>1 DEF OnePlace, InPlace
<1>9. obj[Main] # v
  BY <1>4
<1>10. cur[Main] = v
  BY <1>4, <1>6, <1>7, <1>8, <1>9 DEF Alive, Threads
<1>11. HandlerBusy
  BY <1>1, <1>10, ConstantsAssumption DEF HandsFree
<1>12. CASE reply[v] = "none"
  BY <1>1, <1>4, <1>10, <1>11, <1>12 DEF OwnWorkIsSafe
<1>13. CASE reply[v] # "none"
  <2>1. avail[v] > 0
    BY <1>1, <1>2, <1>10, <1>11, <1>13 DEF OneCallServed, PathKnown
  <2> QED
    BY <1>1, <1>6, <2>1 DEF JarInv
<1> QED
  BY <1>12, <1>13

(* do_run() sets the result once, and a cancelation is not taken back.     *)
LEMMA DisturbanceStays == ContractInv /\ [Next]_vars =>
    InterruptedForOthers \subseteq InterruptedForOthers'
<1> SUFFICES ASSUME TypeOK, DoneHasResult, [Next]_vars,
                    NEW w \in InterruptedForOthers
             PROVE  w \in InterruptedForOthers'
  BY DEF ContractInv, TrackerInv, QueueInv, CookieInv, AnswerInv, SignalInv, TypeInv
<1> USE DEF TypeOK, WorkTypes, InterruptedForOthers, workVars
<1>1. CASE Environment
  BY <1>1 DEF Environment, Quit, Request, Fetch, Abort
<1>2. ASSUME NEW t \in Threads, Subroutine(t) PROVE w \in InterruptedForOthers'
  BY <1>2 DEF Subroutine, CancelRunnable, Cancel, NotifyJar, NotifyEaten,
     NotifyBlocks, NotifyWakesUp, NotifyClient, Purge, Purged
<1>3. CASE MainStep
  <2>1. CASE AddWork \/ AddWorkToFullQueue \/ ReplaceWork
    BY <2>1 DEF AddWork, AddWorkToFullQueue, ReplaceWork, Schedule
  <2>2. CASE EatLookup \/ EatUnknown \/ StartWaiting \/ WaitEnds \/ EatResult
    BY <2>2 DEF EatLookup, EatUnknown, StartWaiting, WaitEnds, EatResult
  <2>3. CASE LockAfterTimeout \/ EatQuickly \/ EatLater \/ Collect
    BY <2>3 DEF LockAfterTimeout, EatQuickly, EatLater, Collect
  <2>4. CASE Join \/ \E q \in Queues : Shutdown(q)
    BY <2>4 DEF Join, Shutdown
  <2> QED
    BY <1>2, <1>3, <2>1, <2>2, <2>3, <2>4, MainIsThread DEF MainStep
<1>4. ASSUME NEW q \in Queues, WorkerStep(q) PROVE w \in InterruptedForOthers'
  <2>1. CASE \E r \in Results : DoRun(q, r)
    BY <2>1 DEF DoRun, DoneHasResult
  <2>2. CASE \/ TakeWork(q) \/ SkipWork(q) \/ RunBegins(q) \/ RunEnds(q)
             \/ PopWork(q) \/ WorkerStops(q)
    BY <2>2 DEF TakeWork, SkipWork, RunBegins, RunEnds, PopWork, WorkerStops
  <2> QED
    BY <1>2, <1>4, <2>1, <2>2, MainIsThread DEF WorkerStep
<1>5. CASE UNCHANGED vars
  BY <1>5 DEF vars
<1> QED
  BY <1>1, <1>3, <1>4, <1>5 DEF Next

LEMMA OwnWorkIsSafeNext == ContractInv /\ [Next]_vars => OwnWorkIsSafe'
<1> SUFFICES ASSUME ContractInv, TypeOK, HandlerHasWork,
                    ThreadHasWork, OneNotifier, OneCallServed, PathStarted,
                    NotElsewhere, DoneHasResult, PathKnown, HandsFree,
                    CancelInv, OwnWorkIsSafe, [Next]_vars,
                    InterruptedForOthers \subseteq InterruptedForOthers'
             PROVE  OwnWorkIsSafe'
  BY DisturbanceStays
  DEF ContractInv, TrackerInv, QueueInv, CookieInv, AnswerInv, SignalInv, TypeInv
<1> USE ConstantsAssumption, MainIsThread DEF TypeOK, ThreadTypes, WorkTypes,
    JarTypes, ClientTypes, OwnWorkIsSafe, HandlerBusy, Eating, Notifying,
    threadVars, queueVars, workVars, jarVars, clientVars
<1>1. ASSUME NEW w \in Works, Request(w) PROVE OwnWorkIsSafe'
  BY <1>1 DEF Request, PathStarted, DoneHasResult, CancelInv, OneCallServed
<1>2. ASSUME NEW w \in Works, Fetch(w) PROVE OwnWorkIsSafe'
  BY <1>2 DEF Fetch
<1>3. ASSUME NEW w \in Works, Abort(w) PROVE OwnWorkIsSafe'
  BY <1>3 DEF Abort
<1>4. CASE AddWork
  BY <1>4 DEF AddWork, Schedule, Enqueue, Accepted
<1>5. CASE AddWorkToFullQueue
  BY <1>5 DEF AddWorkToFullQueue, Schedule, Full
<1>6. CASE ReplaceWork
  BY <1>6 DEF ReplaceWork, Enqueue, Accepted
<1>7. CASE EatLookup
  BY <1>7 DEF EatLookup
<1>8. CASE EatUnknown
  BY <1>8 DEF EatUnknown, HandlerDone
<1>9. CASE StartWaiting
  BY <1>9 DEF StartWaiting
<1>10. CASE WaitEnds
  BY <1>10 DEF WaitEnds
<1>11. CASE EatResult
  BY <1>11 DEF EatResult, HandlerDone, Deliver
<1>12. CASE LockAfterTimeout
  BY <1>12 DEF LockAfterTimeout
<1>13. CASE EatQuickly
  BY <1>13 DEF EatQuickly
<1>14. CASE EatLater
  BY <1>14 DEF EatLater, HandlerDone
<1>15. CASE Collect
  BY <1>15 DEF Collect, HandlerDone, Deliver
<1>16. ASSUME NEW t \in Threads, CancelRunnable(t) PROVE OwnWorkIsSafe'
  <2>1. HandlerBusy' => HandlerBusy
    BY <1>16 DEF CancelRunnable
  <2>2. HandlerBusy => t = Main /\ obj[t] # cur[Main]
    BY <1>16 DEF CancelRunnable, HandsFree, Closing, Shutting, Threads, NotElsewhere,
       NotQueuedYet
  <2> QED
    BY <1>16, <2>1, <2>2 DEF CancelRunnable
<1>17. ASSUME NEW t \in Threads, Cancel(t) PROVE OwnWorkIsSafe'
  <2>1. Return(t) /\ ret' = ret /\ cur' = cur /\ pc[t] \in Notifying \cup {"cancel"}
    BY <1>17 DEF Cancel
  <2>2. HandlerBusy' => HandlerBusy
    BY <2>1, ReturnToHandler
  <2>3. HandlerBusy => t = Main /\ obj[t] # cur[Main]
    BY <1>17 DEF Cancel, HandsFree, Closing, Shutting, Threads, NotElsewhere, NotQueuedYet
  <2> QED
    BY <1>17, <2>2, <2>3 DEF Cancel
<1>18. ASSUME NEW t \in Threads, NotifyJar(t) PROVE OwnWorkIsSafe'
  BY <1>18 DEF NotifyJar, LeavesJar
<1>19. ASSUME NEW t \in Threads, NotifyEaten(t) PROVE OwnWorkIsSafe'
  BY <1>19, ReturnToHandler DEF NotifyEaten, Return
<1>20. ASSUME NEW t \in Threads, NotifyBlocks(t) PROVE OwnWorkIsSafe'
  BY <1>20 DEF NotifyBlocks
<1>21. ASSUME NEW t \in Threads, NotifyWakesUp(t) PROVE OwnWorkIsSafe'
  BY <1>21 DEF NotifyWakesUp
<1>22. ASSUME NEW t \in Threads, NotifyClient(t) PROVE OwnWorkIsSafe'
  BY <1>22, ReturnToHandler DEF NotifyClient, Return
<1>23. ASSUME NEW t \in Threads, NEW q \in Queues, Purge(t, q) PROVE
     OwnWorkIsSafe'
  BY <1>23 DEF Purge
<1>24. ASSUME NEW t \in Threads, NEW q \in Queues, Purged(t, q) PROVE
     OwnWorkIsSafe'
  BY <1>24 DEF Purged
<1>25. ASSUME NEW q \in Queues, TakeWork(q) PROVE OwnWorkIsSafe'
  BY <1>25 DEF TakeWork
<1>26. ASSUME NEW q \in Queues, SkipWork(q) PROVE OwnWorkIsSafe'
  BY <1>26 DEF SkipWork, Advance
<1>27. ASSUME NEW q \in Queues, RunBegins(q) PROVE OwnWorkIsSafe'
  BY <1>27 DEF RunBegins
<1>28. ASSUME NEW q \in Queues, NEW r \in Results, DoRun(q, r) PROVE
     OwnWorkIsSafe'
  <2>1. HandlerBusy' <=> HandlerBusy
    BY <1>28 DEF DoRun
  <2>2. CASE HandlerBusy /\ cur[Main] = cur[q] /\ reply[cur[q]] = "none" /\ r = "INTERRUPTED"
    <3>1. pc[Main] \in Eating
      BY <2>2 DEF NotElsewhere, NotQueuedYet
    <3>2. obj[Main] = NoWork /\ ~cancelReq[cur[q]]
      BY <2>2, <3>1 DEF HandsFree
    <3>3. Excused(cur[q])
      BY <1>28, <2>2, InterruptIsExcused
    <3>4. \E v \in Works : cancelReq[v] /\ QueueOf[v] # QueueOf[cur[q]]
      BY <3>2, <3>3 DEF Excused
    <3>5. cur[q] \in Works /\ cur[q] \in Interruptible /\ pc[q] = "dorun"
      BY <1>28, <2>2 DEF DoRun, ThreadHasWork, Running
    <3>6. cur[q] \in InterruptedForOthers'
      BY <1>28, <2>2, <3>4, <3>5 DEF DoRun, InterruptedForOthers
    <3>7. wstate[cur[q]] = wstate'[cur[q]] /\ cancelReq' = cancelReq /\ cur' = cur
      BY <1>28 DEF DoRun
    <3> QED
      BY <2>2, <3>2, <3>6, <3>7
  <2>3. CASE ~(HandlerBusy /\ cur[Main] = cur[q] /\ reply[cur[q]] = "none" /\ r = "INTERRUPTED")
    BY <1>28, <2>1, <2>3 DEF DoRun
  <2> QED
    BY <2>2, <2>3
<1>29. ASSUME NEW q \in Queues, RunEnds(q) PROVE OwnWorkIsSafe'
  BY <1>29 DEF RunEnds, OneNotifier, Running
<1>30. ASSUME NEW q \in Queues, PopWork(q) PROVE OwnWorkIsSafe'
  BY <1>30 DEF PopWork
<1>31. ASSUME NEW q \in Queues, WorkerStops(q) PROVE OwnWorkIsSafe'
  BY <1>31 DEF WorkerStops
<1>32. CASE Quit
  BY <1>32 DEF Quit
<1>33. ASSUME NEW q \in Queues, Shutdown(q) PROVE OwnWorkIsSafe'
  BY <1>33 DEF Shutdown
<1>34. CASE Join
  BY <1>34 DEF Join
<1>35. CASE UNCHANGED vars
  BY <1>35 DEF vars
<1>36. ASSUME NEW t \in Threads, Subroutine(t) PROVE OwnWorkIsSafe'
  BY <1>16, <1>17, <1>18, <1>19, <1>20, <1>21, <1>22, <1>23, <1>24, <1>36 DEF
     Subroutine
<1>37. CASE Environment
  BY <1>1, <1>2, <1>3, <1>32, <1>37 DEF Environment
<1>38. CASE MainStep
  BY <1>4, <1>5, <1>6, <1>7, <1>8, <1>9, <1>10, <1>11, <1>12, <1>13, <1>14,
     <1>15, <1>33, <1>34, <1>36, <1>38 DEF MainStep
<1>39. ASSUME NEW q \in Queues, WorkerStep(q) PROVE OwnWorkIsSafe'
  BY <1>25, <1>26, <1>27, <1>28, <1>29, <1>30, <1>31, <1>36, <1>39 DEF
     WorkerStep
<1> QED
  BY <1>35, <1>37, <1>38, <1>39 DEF Next

(* A handler finds its work in the jar, unless it is that of a call which  *)
(* has been interrupted on behalf of another queue.                        *)
LEMMA CookieIsKnown == ContractInv /\ EatUnknown =>
    reply[cur[Main]] = "none" /\ cur[Main] \in InterruptedForOthers
<1> SUFFICES ASSUME TypeOK, HandlerHasWork, OneCallServed, JarInv, PathKnown,
                    OwnWorkIsSafe, EatUnknown
             PROVE  reply[cur[Main]] = "none" /\ cur[Main] \in InterruptedForOthers
  BY DEF ContractInv, TrackerInv, QueueInv, AnswerInv, SignalInv, TypeInv
<1>1. cur[Main] \in Works /\ HandlerBusy
  BY DEF EatUnknown, HandlerHasWork, HandlerBusy, Eating
<1>2. CASE reply[cur[Main]] = "none"
  BY <1>1, <1>2 DEF EatUnknown, OwnWorkIsSafe
<1>3. CASE reply[cur[Main]] # "none"
  <2>1. reply[cur[Main]] = "cookie" /\ got[cur[Main]] = "none" /\ cur[Main] \in asked
    BY <1>1, <1>3 DEF OneCallServed
  <2>2. avail[cur[Main]] > 0
    BY <2>1 DEF EatUnknown, PathKnown, Eating
  <2> QED
    BY <1>1, <2>1, <2>2 DEF EatUnknown, JarInv
<1> QED
  BY <1>2, <1>3

LEMMA NothingBrokenNext == ContractInv /\ [Next]_vars => NothingBroken'
<1> SUFFICES ASSUME ContractInv, TypeOK, HandlerHasWork, OneCallServed,
                    NothingBroken, [Next]_vars,
                    InterruptedForOthers \subseteq InterruptedForOthers'
             PROVE  NothingBroken'
  BY DisturbanceStays
  DEF ContractInv, TrackerInv, QueueInv, CookieInv, AnswerInv, SignalInv, TypeInv
<1> USE ConstantsAssumption, MainIsThread DEF TypeOK, ClientTypes,
    NothingBroken, Report, clientVars
<1>0. pc[Main] \in Eating \cup {"add", "replace"} => reply[cur[Main]] # "error"
  BY DEF OneCallServed, HandlerBusy
<1>1. ASSUME NEW w \in Works, Request(w) PROVE NothingBroken'
  BY <1>1 DEF Request
<1>2. ASSUME NEW w \in Works, Fetch(w) PROVE NothingBroken'
  BY <1>2 DEF Fetch
<1>3. ASSUME NEW w \in Works, Abort(w) PROVE NothingBroken'
  BY <1>3 DEF Abort
<1>4. CASE AddWork
  BY <1>0, <1>4 DEF Eating, AddWork, Schedule, Enqueue, Accepted
<1>5. CASE AddWorkToFullQueue
  BY <1>5 DEF AddWorkToFullQueue, Schedule, Full
<1>6. CASE ReplaceWork
  BY <1>0, <1>6 DEF Eating, ReplaceWork, Enqueue, Accepted
<1>7. CASE EatLookup
  BY <1>7 DEF EatLookup
<1>8. CASE EatUnknown
  <2>1. reply[cur[Main]] = "none" /\ cur[Main] \in InterruptedForOthers
    BY <1>8, CookieIsKnown
  <2>2. cur[Main] \in Works
    BY <1>8 DEF EatUnknown, HandlerHasWork, Eating
  <2> QED
    BY <1>8, <2>1, <2>2 DEF EatUnknown, Fetching
<1>9. CASE StartWaiting
  BY <1>9 DEF StartWaiting
<1>10. CASE WaitEnds
  BY <1>10 DEF WaitEnds
<1>11. CASE EatResult
  BY <1>0, <1>11 DEF Eating, EatResult, HandlerDone, Deliver
<1>12. CASE LockAfterTimeout
  BY <1>12 DEF LockAfterTimeout
<1>13. CASE EatQuickly
  BY <1>13 DEF EatQuickly
<1>14. CASE EatLater
  BY <1>0, <1>14 DEF Eating, EatLater, HandlerDone
<1>15. CASE Collect
  BY <1>0, <1>15 DEF Eating, Collect, HandlerDone, Deliver
<1>16. ASSUME NEW t \in Threads, CancelRunnable(t) PROVE NothingBroken'
  BY <1>16 DEF CancelRunnable
<1>17. ASSUME NEW t \in Threads, Cancel(t) PROVE NothingBroken'
  BY <1>17 DEF Cancel, Return
<1>18. ASSUME NEW t \in Threads, NotifyJar(t) PROVE NothingBroken'
  BY <1>18 DEF NotifyJar
<1>19. ASSUME NEW t \in Threads, NotifyEaten(t) PROVE NothingBroken'
  BY <1>19 DEF NotifyEaten, Return
<1>20. ASSUME NEW t \in Threads, NotifyBlocks(t) PROVE NothingBroken'
  BY <1>20 DEF NotifyBlocks
<1>21. ASSUME NEW t \in Threads, NotifyWakesUp(t) PROVE NothingBroken'
  BY <1>21 DEF NotifyWakesUp
<1>22. ASSUME NEW t \in Threads, NotifyClient(t) PROVE NothingBroken'
  BY <1>22 DEF NotifyClient, Return
<1>23. ASSUME NEW t \in Threads, NEW q \in Queues, Purge(t, q) PROVE
     NothingBroken'
  BY <1>23 DEF Purge
<1>24. ASSUME NEW t \in Threads, NEW q \in Queues, Purged(t, q) PROVE
     NothingBroken'
  BY <1>24 DEF Purged
<1>25. ASSUME NEW q \in Queues, TakeWork(q) PROVE NothingBroken'
  BY <1>25 DEF TakeWork
<1>26. ASSUME NEW q \in Queues, SkipWork(q) PROVE NothingBroken'
  BY <1>26 DEF SkipWork, Advance
<1>27. ASSUME NEW q \in Queues, RunBegins(q) PROVE NothingBroken'
  BY <1>27 DEF RunBegins
<1>28. ASSUME NEW q \in Queues, NEW r \in Results, DoRun(q, r) PROVE
     NothingBroken'
  BY <1>28 DEF DoRun
<1>29. ASSUME NEW q \in Queues, RunEnds(q) PROVE NothingBroken'
  BY <1>29 DEF RunEnds
<1>30. ASSUME NEW q \in Queues, PopWork(q) PROVE NothingBroken'
  BY <1>30 DEF PopWork
<1>31. ASSUME NEW q \in Queues, WorkerStops(q) PROVE NothingBroken'
  BY <1>31 DEF WorkerStops
<1>32. CASE Quit
  BY <1>32 DEF Quit
<1>33. ASSUME NEW q \in Queues, Shutdown(q) PROVE NothingBroken'
  BY <1>33 DEF Shutdown
<1>34. CASE Join
  BY <1>34 DEF Join
<1>35. CASE UNCHANGED vars
  BY <1>35 DEF vars
<1>36. ASSUME NEW t \in Threads, Subroutine(t) PROVE NothingBroken'
  BY <1>16, <1>17, <1>18, <1>19, <1>20, <1>21, <1>22, <1>23, <1>24, <1>36 DEF
     Subroutine
<1>37. CASE Environment
  BY <1>1, <1>2, <1>3, <1>32, <1>37 DEF Environment
<1>38. CASE MainStep
  BY <1>4, <1>5, <1>6, <1>7, <1>8, <1>9, <1>10, <1>11, <1>12, <1>13, <1>14,
     <1>15, <1>33, <1>34, <1>36, <1>38 DEF MainStep
<1>39. ASSUME NEW q \in Queues, WorkerStep(q) PROVE NothingBroken'
  BY <1>25, <1>26, <1>27, <1>28, <1>29, <1>30, <1>31, <1>36, <1>39 DEF
     WorkerStep
<1> QED
  BY <1>35, <1>37, <1>38, <1>39 DEF Next

LEMMA FetchedNext == ContractInv /\ [Next]_vars => FetchedAfterSignal'
<1> SUFFICES ASSUME ContractInv, TypeOK, HandlerHasWork, ThreadHasWork,
                    OneCallServed, PathKnown, FetchedAfterSignal, [Next]_vars
             PROVE  FetchedAfterSignal'
  BY DEF ContractInv, TrackerInv, QueueInv, CookieInv, AnswerInv, SignalInv, TypeInv
<1> USE ConstantsAssumption, MainIsThread DEF TypeOK, ThreadTypes,
    ClientTypes, FetchedAfterSignal, clientVars
<1>1. ASSUME NEW w \in Works, Request(w) PROVE FetchedAfterSignal'
  BY <1>1 DEF Request
<1>2. ASSUME NEW w \in Works, Fetch(w) PROVE FetchedAfterSignal'
  BY <1>2 DEF Fetch
<1>3. ASSUME NEW w \in Works, Abort(w) PROVE FetchedAfterSignal'
  BY <1>3 DEF Abort
<1>4. CASE AddWork
  BY <1>4 DEF AddWork, Schedule, Enqueue, Accepted, Modes
<1>5. CASE AddWorkToFullQueue
  BY <1>5 DEF AddWorkToFullQueue, Schedule, Full
<1>6. CASE ReplaceWork
  BY <1>6 DEF ReplaceWork, Enqueue, Accepted
<1>7. CASE EatLookup
  BY <1>7 DEF EatLookup
<1>8. CASE EatUnknown
  BY <1>8, CookieIsKnown DEF EatUnknown, Fetching
<1>9. CASE StartWaiting
  BY <1>9 DEF StartWaiting
<1>10. CASE WaitEnds
  BY <1>10 DEF WaitEnds
<1>11. CASE EatResult
  BY <1>11 DEF EatResult, HandlerDone, Deliver, Fetching, PathKnown, Eating,
     HandlerHasWork, OneCallServed, HandlerBusy
<1>12. CASE LockAfterTimeout
  BY <1>12 DEF LockAfterTimeout
<1>13. CASE EatQuickly
  BY <1>13 DEF EatQuickly
<1>14. CASE EatLater
  BY <1>14 DEF EatLater, HandlerDone
<1>15. CASE Collect
  BY <1>15 DEF Collect, HandlerDone, Deliver, Fetching, PathKnown, Eating,
     HandlerHasWork, OneCallServed, HandlerBusy
<1>16. ASSUME NEW t \in Threads, CancelRunnable(t) PROVE FetchedAfterSignal'
  BY <1>16 DEF CancelRunnable
<1>17. ASSUME NEW t \in Threads, Cancel(t) PROVE FetchedAfterSignal'
  BY <1>17 DEF Cancel, Return
<1>18. ASSUME NEW t \in Threads, NotifyJar(t) PROVE FetchedAfterSignal'
  BY <1>18 DEF NotifyJar
<1>19. ASSUME NEW t \in Threads, NotifyEaten(t) PROVE FetchedAfterSignal'
  BY <1>19 DEF NotifyEaten, Return
<1>20. ASSUME NEW t \in Threads, NotifyBlocks(t) PROVE FetchedAfterSignal'
  BY <1>20 DEF NotifyBlocks
<1>21. ASSUME NEW t \in Threads, NotifyWakesUp(t) PROVE FetchedAfterSignal'
  BY <1>21 DEF NotifyWakesUp
<1>22. ASSUME NEW t \in Threads, NotifyClient(t) PROVE FetchedAfterSignal'
  BY <1>22 DEF NotifyClient, Return, ThreadHasWork, Notifying
<1>23. ASSUME NEW t \in Threads, NEW q \in Queues, Purge(t, q) PROVE
     FetchedAfterSignal'
  BY <1>23 DEF Purge
<1>24. ASSUME NEW t \in Threads, NEW q \in Queues, Purged(t, q) PROVE
     FetchedAfterSignal'
  BY <1>24 DEF Purged
<1>25. ASSUME NEW q \in Queues, TakeWork(q) PROVE FetchedAfterSignal'
  BY <1>25 DEF TakeWork
<1>26. ASSUME NEW q \in Queues, SkipWork(q) PROVE FetchedAfterSignal'
  BY <1>26 DEF SkipWork, Advance
<1>27. ASSUME NEW q \in Queues, RunBegins(q) PROVE FetchedAfterSignal'
  BY <1>27 DEF RunBegins
<1>28. ASSUME NEW q \in Queues, NEW r \in Results, DoRun(q, r) PROVE
     FetchedAfterSignal'
  BY <1>28 DEF DoRun
<1>29. ASSUME NEW q \in Queues, RunEnds(q) PROVE FetchedAfterSignal'
  BY <1>29 DEF RunEnds
<1>30. ASSUME NEW q \in Queues, PopWork(q) PROVE FetchedAfterSignal'
  BY <1>30 DEF PopWork
<1>31. ASSUME NEW q \in Queues, WorkerStops(q) PROVE FetchedAfterSignal'
  BY <1>31 DEF WorkerStops
<1>32. CASE Quit
  BY <1>32 DEF Quit
<1>33. ASSUME NEW q \in Queues, Shutdown(q) PROVE FetchedAfterSignal'
  BY <1>33 DEF Shutdown
<1>34. CASE Join
  BY <1>34 DEF Join
<1>35. CASE UNCHANGED vars
  BY <1>35 DEF vars
<1>36. ASSUME NEW t \in Threads, Subroutine(t) PROVE FetchedAfterSignal'
  BY <1>16, <1>17, <1>18, <1>19, <1>20, <1>21, <1>22, <1>23, <1>24, <1>36 DEF
     Subroutine
<1>37. CASE Environment
  BY <1>1, <1>2, <1>3, <1>32, <1>37 DEF Environment
<1>38. CASE MainStep
  BY <1>4, <1>5, <1>6, <1>7, <1>8, <1>9, <1>10, <1>11, <1>12, <1>13, <1>14,
     <1>15, <1>33, <1>34, <1>36, <1>38 DEF MainStep
<1>39. ASSUME NEW q \in Queues, WorkerStep(q) PROVE FetchedAfterSignal'
  BY <1>25, <1>26, <1>27, <1>28, <1>29, <1>30, <1>31, <1>36, <1>39 DEF
     WorkerStep
<1> QED
  BY <1>35, <1>37, <1>38, <1>39 DEF Next

LEMMA ContractInit == Init => ContractInv
<1> SUFFICES ASSUME Init PROVE ContractInv
  OBVIOUS
<1> USE MainIsThread, ConstantsAssumption
<1>1. HandsFree
  BY DEF Init, HandsFree, Closing, Shutting, HandlerBusy, Eating, Notifying
<1>2. CancelInv /\ OwnWorkIsSafe
  BY DEF Init, CancelInv, OwnWorkIsSafe, HandlerBusy, Eating, Notifying
<1>3. NothingBroken /\ FetchedAfterSignal
  BY DEF Init, NothingBroken, FetchedAfterSignal
<1> QED
  BY <1>1, <1>2, <1>3, TrackerInit DEF ContractInv

LEMMA ContractNext ==
    ASSUME ~EarlyFetch PROVE ContractInv /\ [Next]_vars => ContractInv'
<1> SUFFICES ASSUME ContractInv, [Next]_vars PROVE ContractInv'
  OBVIOUS
<1>1. TrackerInv'
  BY TrackerNext DEF ContractInv
<1> QED
  BY <1>1, HandsFreeNext, CancelNext, OwnWorkIsSafeNext, NothingBrokenNext, FetchedNext
  DEF ContractInv

(* With well-behaved clients, no MSG_BUG() is reported by tracker, work    *)
(* queues, cookie jar and handlers, except for the one in Work::run()      *)
(* about work canceled in between, and the one of a handler that misses    *)
(* its own work in the jar; and the latter only if that work has been      *)
(* interrupted on behalf of another queue.                                 *)
THEOREM NoBugs ==
    ASSUME ~EarlyFetch PROVE Spec => []NoBugReports
<1>1. ContractInv /\ [Next]_vars => ContractInv'
  BY ContractNext
<1>2. ContractInv => NoBugReports
  BY DEF ContractInv, TrackerInv, TrackerQuiet, NothingBroken, NoBugReports
<1> QED
  BY <1>1, <1>2, ContractInit, PTL DEF Spec
-----------------------------------------------------------------------------

Interrupts(w) == promise[w] # "INTERRUPTED" /\ promise'[w] = "INTERRUPTED"

LEMMA InterruptNext == ContractInv /\ [Next]_vars =>
    \A v \in Works : Interrupts(v) => Excused(v)
<1> SUFFICES ASSUME ContractInv, TypeOK, [Next]_vars
             PROVE  \A v \in Works : Interrupts(v) => Excused(v)
  BY DEF ContractInv, TrackerInv, QueueInv, CookieInv, AnswerInv, SignalInv, TypeInv
<1> SUFFICES ASSUME NEW v \in Works PROVE Interrupts(v) => Excused(v)
  OBVIOUS
<1> USE MainIsThread DEF TypeOK, WorkTypes, Interrupts, workVars
<1>1. ASSUME NEW w \in Works, Request(w) PROVE Interrupts(v) => Excused(v)
  BY <1>1 DEF Request
<1>2. ASSUME NEW w \in Works, Fetch(w) PROVE Interrupts(v) => Excused(v)
  BY <1>2 DEF Fetch
<1>3. ASSUME NEW w \in Works, Abort(w) PROVE Interrupts(v) => Excused(v)
  BY <1>3 DEF Abort
<1>4. CASE AddWork
  BY <1>4 DEF AddWork, Schedule, Enqueue, Accepted
<1>5. CASE AddWorkToFullQueue
  BY <1>5 DEF AddWorkToFullQueue, Schedule, Full
<1>6. CASE ReplaceWork
  BY <1>6 DEF ReplaceWork, Enqueue, Accepted
<1>7. CASE EatLookup
  BY <1>7 DEF EatLookup
<1>8. CASE EatUnknown
  BY <1>8 DEF EatUnknown, HandlerDone
<1>9. CASE StartWaiting
  BY <1>9 DEF StartWaiting
<1>10. CASE WaitEnds
  BY <1>10 DEF WaitEnds
<1>11. CASE EatResult
  BY <1>11 DEF EatResult, HandlerDone, Deliver
<1>12. CASE LockAfterTimeout
  BY <1>12 DEF LockAfterTimeout
<1>13. CASE EatQuickly
  BY <1>13 DEF EatQuickly
<1>14. CASE EatLater
  BY <1>14 DEF EatLater, HandlerDone
<1>15. CASE Collect
  BY <1>15 DEF Collect, HandlerDone, Deliver
<1>16. ASSUME NEW t \in Threads, CancelRunnable(t) PROVE Interrupts(v) =>
     Excused(v)
  BY <1>16 DEF CancelRunnable
<1>17. ASSUME NEW t \in Threads, Cancel(t) PROVE Interrupts(v) => Excused(v)
  BY <1>17 DEF Cancel, Return
<1>18. ASSUME NEW t \in Threads, NotifyJar(t) PROVE Interrupts(v) =>
     Excused(v)
  BY <1>18 DEF NotifyJar
<1>19. ASSUME NEW t \in Threads, NotifyEaten(t) PROVE Interrupts(v) =>
     Excused(v)
  BY <1>19 DEF NotifyEaten, Return
<1>20. ASSUME NEW t \in Threads, NotifyBlocks(t) PROVE Interrupts(v) =>
     Excused(v)
  BY <1>20 DEF NotifyBlocks
<1>21. ASSUME NEW t \in Threads, NotifyWakesUp(t) PROVE Interrupts(v) =>
     Excused(v)
  BY <1>21 DEF NotifyWakesUp
<1>22. ASSUME NEW t \in Threads, NotifyClient(t) PROVE Interrupts(v) =>
     Excused(v)
  BY <1>22 DEF NotifyClient, Return
<1>23. ASSUME NEW t \in Threads, NEW q \in Queues, Purge(t, q) PROVE
     Interrupts(v) => Excused(v)
  BY <1>23 DEF Purge
<1>24. ASSUME NEW t \in Threads, NEW q \in Queues, Purged(t, q) PROVE
     Interrupts(v) => Excused(v)
  BY <1>24 DEF Purged
<1>25. ASSUME NEW q \in Queues, TakeWork(q) PROVE Interrupts(v) => Excused(v)
  BY <1>25 DEF TakeWork
<1>26. ASSUME NEW q \in Queues, SkipWork(q) PROVE Interrupts(v) => Excused(v)
  BY <1>26 DEF SkipWork, Advance
<1>27. ASSUME NEW q \in Queues, RunBegins(q) PROVE Interrupts(v) => Excused(v)
  BY <1>27 DEF RunBegins
<1>28. ASSUME NEW q \in Queues, NEW r \in Results, DoRun(q, r) PROVE
     Interrupts(v) => Excused(v)
  <2>1. CASE r = "INTERRUPTED" /\ v = cur[q]
    BY <1>28, <2>1, InterruptIsExcused
  <2>2. CASE ~(r = "INTERRUPTED" /\ v = cur[q])
    BY <1>28, <2>2 DEF DoRun
  <2> QED
    BY <2>1, <2>2
<1>29. ASSUME NEW q \in Queues, RunEnds(q) PROVE Interrupts(v) => Excused(v)
  BY <1>29 DEF RunEnds
<1>30. ASSUME NEW q \in Queues, PopWork(q) PROVE Interrupts(v) => Excused(v)
  BY <1>30 DEF PopWork
<1>31. ASSUME NEW q \in Queues, WorkerStops(q) PROVE Interrupts(v) =>
     Excused(v)
  BY <1>31 DEF WorkerStops
<1>32. CASE Quit
  BY <1>32 DEF Quit
<1>33. ASSUME NEW q \in Queues, Shutdown(q) PROVE Interrupts(v) => Excused(v)
  BY <1>33 DEF Shutdown
<1>34. CASE Join
  BY <1>34 DEF Join
<1>35. CASE UNCHANGED vars
  BY <1>35 DEF vars
<1>36. ASSUME NEW t \in Threads, Subroutine(t) PROVE Interrupts(v) => Excused(v)
  BY <1>16, <1>17, <1>18, <1>19, <1>20, <1>21, <1>22, <1>23, <1>24, <1>36 DEF
     Subroutine
<1>37. CASE Environment
  BY <1>1, <1>2, <1>3, <1>32, <1>37 DEF Environment
<1>38. CASE MainStep
  BY <1>4, <1>5, <1>6, <1>7, <1>8, <1>9, <1>10, <1>11, <1>12, <1>13, <1>14,
     <1>15, <1>33, <1>34, <1>36, <1>38 DEF MainStep
<1>39. ASSUME NEW q \in Queues, WorkerStep(q) PROVE Interrupts(v) => Excused(v)
  BY <1>25, <1>26, <1>27, <1>28, <1>29, <1>30, <1>31, <1>36, <1>39 DEF
     WorkerStep
<1> QED
  BY <1>35, <1>37, <1>38, <1>39 DEF Next

(* The result of a work item is replaced by an interruption only if the    *)
(* work itself was asked to stop, or while Main, in DataAbort or add_work, *)
(* still holds on to canceled work, or while canceled work of another      *)
(* queue is alive: never because of work that it has replaced itself.      *)
THEOREM InterruptedForAReason ==
    ASSUME ~EarlyFetch PROVE Spec => InterruptedByPendingCancelOnly
<1>1. ContractInv /\ [Next]_vars => ContractInv'
  BY ContractNext
<1>2. ContractInv /\ [Next]_vars =>
          [\A w \in Works :
              promise[w] # "INTERRUPTED" /\ promise'[w] = "INTERRUPTED" =>
                  \/ cancelReq[w]
                  \/ obj[Main] \in Works /\ cancelReq[obj[Main]]
                  \/ \E v \in Works :
                        cancelReq[v] /\ Alive(v) /\ QueueOf[v] # QueueOf[w]]_vars
  BY InterruptNext DEF Interrupts, Excused
<1> QED
  BY <1>1, <1>2, ContractInit, PTL DEF Spec, InterruptedByPendingCancelOnly

-----------------------------------------------------------------------------
(* The phases of all calls, as RNF sees them. *)
phases == [w \in Works |-> Phase(w)]

LEMMA PhaseMoves ==
    ASSUME NEW w \in Works, NEW from, NEW to,
           Phase(w) = from, Phase(w)' = to,
           \A v \in Works \ {w} : Phase(v)' = Phase(v)
    PROVE  Contract!Go(w, from, to)
  BY DEF Contract!Go

LEMMA PhaseStays ==
    ASSUME TypeOK, NEW w \in Works,
           w \in asked' <=> w \in asked, reply'[w] = reply[w], got'[w] = got[w],
           avail'[w] = avail[w], derr'[w] = derr[w]
    PROVE  Phase(w)' = Phase(w)
  BY DEF TypeOK, ClientTypes, Phase

LEMMA PhasesStay == clientVars' = clientVars => phases' = phases
  BY DEF clientVars, phases, Phase

LEMMA ContractCall ==
    ASSUME ContractInv, NEW w \in Works, Request(w)
    PROVE  Contract!Call(w)
<1>1. TypeOK /\ OneCallServed
  BY DEF ContractInv, TrackerInv, QueueInv, AnswerInv, SignalInv, TypeInv
<1>2. ASSUME NEW v \in Works PROVE Phase(v) # "pending"
  BY <1>1 DEF Request, OneCallServed, HandlerBusy, Eating, Notifying, Phase, TypeOK,
     ClientTypes
<1>3. Phase(w) = "new" /\ Phase(w)' = "pending"
  BY <1>1 DEF Request, OneCallServed, Phase, TypeOK, ClientTypes
<1>4. ASSUME NEW v \in Works \ {w} PROVE Phase(v)' = Phase(v)
  BY <1>1, PhaseStays DEF Request
<1> QED
  BY <1>2, <1>3, <1>4, PhaseMoves DEF Contract!Call

(* A call which is not answered yet is answered with a cookie. *)
LEMMA ContractCookie ==
    ASSUME ContractInv, NEW w \in Works, w \in asked, reply[w] = "none",
           reply' = [reply EXCEPT ![w] = "cookie"],
           UNCHANGED <<asked, got, avail, derr>>
    PROVE  Contract!Answer(w)
<1>1. TypeOK /\ CookieBeforeSignal /\ FetchedAfterSignal
  BY DEF ContractInv, TrackerInv, CookieInv, TypeInv
<1>2. got[w] = "none" /\ ~(avail[w] > 0) /\ ~(derr[w] > 0)
  BY <1>1 DEF CookieBeforeSignal, FetchedAfterSignal, TypeOK, ClientTypes
<1>3. Phase(w) = "pending" /\ Phase(w)' = "cookie"
  BY <1>1, <1>2 DEF Phase, TypeOK, ClientTypes
<1>4. ASSUME NEW v \in Works \ {w} PROVE Phase(v)' = Phase(v)
  BY <1>1, PhaseStays DEF TypeOK, ClientTypes
<1> QED
  BY <1>3, <1>4, PhaseMoves DEF Contract!Answer

(* The result is handed over, in the answer to a call or to a fetch. *)
LEMMA ContractResult ==
    ASSUME ContractInv, pc[Main] \in {"erase", "collect"}, Deliver(cur[Main]),
           UNCHANGED <<asked, avail, derr>>
    PROVE  \E w \in Works : Contract!Answer(w) \/ Contract!Fetch(w)
<1>1. /\ TypeOK /\ HandlerHasWork /\ OneCallServed /\ CookieBeforeSignal
      /\ FetchedAfterSignal /\ PathKnown
  BY DEF ContractInv, TrackerInv, QueueInv, CookieInv, AnswerInv, SignalInv, TypeInv
<1>2. cur[Main] \in Works /\ cur[Main] \in asked
  BY <1>1 DEF HandlerHasWork, OneCallServed, HandlerBusy, Eating
<1> PICK w \in Works : w = cur[Main]
  BY <1>2
<1>3. ASSUME NEW v \in Works \ {w} PROVE Phase(v)' = Phase(v)
  BY <1>1, <1>2, PhaseStays DEF Deliver, TypeOK, ClientTypes
<1>4. CASE reply[w] = "none"
  <2>1. got[w] = "none"
    BY <1>1, <1>2, <1>4 DEF FetchedAfterSignal
  <2>2. Phase(w) = "pending" /\ Phase(w)' = "answered"
    BY <1>1, <1>2, <1>4 DEF Phase, Deliver, Fetching, TypeOK, ClientTypes
  <2>3. Contract!Answer(w)
    BY <1>2, <1>3, <2>2, PhaseMoves DEF Contract!Answer
  <2> QED
    BY <1>2, <2>3
<1>5. CASE reply[w] # "none"
  <2>1. reply[w] = "cookie" /\ got[w] = "none"
    BY <1>1, <1>5 DEF OneCallServed, HandlerBusy, Eating
  <2>2. avail[w] > 0
    BY <1>1, <2>1 DEF PathKnown, Eating
  <2>3. Phase(w) = "available" /\ Phase(w)' = "fetched"
    BY <1>1, <1>2, <2>1, <2>2 DEF Phase, Deliver, Fetching, TypeOK, ClientTypes
  <2>4. Contract!Fetch(w)
    BY <1>2, <1>3, <2>3, PhaseMoves DEF Contract!Fetch
  <2> QED
    BY <1>2, <2>4
<1> QED
  BY <1>4, <1>5

(* A call whose work was interrupted on behalf of another queue, and is    *)
(* not in the jar any more, is refused.                                    *)
LEMMA ContractRefusal ==
    ASSUME ContractInv, cur[Main] \in Works, HandlerBusy, EatUnknown
    PROVE  Contract!Answer(cur[Main])
<1> PICK w \in Works : w = cur[Main]
  OBVIOUS
<1>1. TypeOK /\ OneCallServed
  BY DEF ContractInv, TrackerInv, QueueInv, AnswerInv, SignalInv, TypeInv
<1>2. reply[w] = "none" /\ w \in InterruptedForOthers /\ w \in asked
  BY <1>1, CookieIsKnown DEF OneCallServed
<1>3. /\ reply' = [reply EXCEPT ![w] = "error"]
      /\ UNCHANGED <<asked, got, avail, derr>>
  BY <1>1, <1>2 DEF EatUnknown, Fetching, TypeOK, ClientTypes
<1>4. Phase(w) = "pending" /\ Phase(w)' = "refused"
  BY <1>1, <1>2, <1>3 DEF Phase, TypeOK, ClientTypes
<1>5. ASSUME NEW v \in Works \ {w} PROVE Phase(v)' = Phase(v)
  BY <1>1, <1>3, PhaseStays DEF TypeOK, ClientTypes
<1>6. w \in Disturbed
  BY <1>2 DEF InterruptedForOthers, Disturbed
<1> QED
  BY <1>4, <1>5, <1>6, PhaseMoves DEF Contract!Answer

LEMMA ContractNotify ==
    ASSUME ContractInv, ContractInv', NEW t \in Threads, NotifyClient(t)
    PROVE  phases' = phases \/ \E w \in Works : Contract!Notify(w)
<1>1. TypeOK /\ ThreadHasWork /\ FetchedAfterSignal /\ SignalOnce /\ OneCallServed
  BY DEF ContractInv, TrackerInv, QueueInv, CookieInv, AnswerInv, SignalInv, TypeInv
<1>2. SignalOnce' /\ CookieBeforeSignal' /\ TypeOK'
  BY DEF ContractInv, TrackerInv, QueueInv, CookieInv, AnswerInv, SignalInv, TypeInv
<1>3. obj[t] \in Works
  BY <1>1 DEF NotifyClient, ThreadHasWork, Notifying
<1> PICK w \in Works : w = obj[t]
  BY <1>3
<1>4. /\ UNCHANGED <<asked, reply, got>>
      /\ \A v \in Works \ {w} : avail'[v] = avail[v] /\ derr'[v] = derr[v]
      /\ \/ avail'[w] = avail[w] /\ derr'[w] = derr[w]
         \/ avail'[w] = avail[w] + 1 /\ derr'[w] = derr[w]
         \/ avail'[w] = avail[w] /\ derr'[w] = derr[w] + 1
  BY <1>1, <1>3 DEF NotifyClient, TypeOK, ClientTypes
<1>5. ASSUME NEW v \in Works \ {w} PROVE Phase(v)' = Phase(v)
  BY <1>1, <1>4, PhaseStays
<1>6. CASE avail'[w] = avail[w] /\ derr'[w] = derr[w]
  <2>1. Phase(w)' = Phase(w)
    BY <1>1, <1>4, <1>6, PhaseStays
  <2> QED
    BY <1>5, <2>1 DEF phases
<1>7. CASE ~(avail'[w] = avail[w] /\ derr'[w] = derr[w])
  <2>1. avail[w] = 0 /\ derr[w] = 0 /\ avail'[w] + derr'[w] > 0
    BY <1>1, <1>2, <1>3, <1>4, <1>7 DEF SignalOnce, TypeOK, ClientTypes
  <2>2. reply[w] = "cookie" /\ got[w] = "none" /\ w \in asked
    BY <1>1, <1>2, <1>3, <1>4, <2>1
    DEF CookieBeforeSignal, FetchedAfterSignal, OneCallServed
  <2>3. Phase(w) = "cookie" /\ Phase(w)' \in {"available", "failed"}
    BY <1>1, <1>2, <1>3, <1>4, <2>1, <2>2 DEF Phase, TypeOK, ClientTypes
  <2> QED
    BY <1>3, <1>5, <2>3, PhaseMoves DEF Contract!Notify
<1> QED
  BY <1>6, <1>7

LEMMA ContractStep == ContractInv /\ ContractInv' /\ [Next]_vars =>
    Contract!Next \/ phases' = phases
<1> SUFFICES ASSUME ContractInv, ContractInv', TypeOK, HandlerHasWork,
                    ThreadHasWork, OneCallServed, PathKnown, [Next]_vars
             PROVE  Contract!Next \/ phases' = phases
  BY DEF ContractInv, TrackerInv, QueueInv, CookieInv, AnswerInv, SignalInv, TypeInv
<1> USE MainIsThread, PhasesStay DEF clientVars
<1>1. ASSUME NEW w \in Works, Request(w) PROVE Contract!Next \/ phases' =
     phases
  BY <1>1, ContractCall DEF Contract!Next
<1>2. ASSUME NEW w \in Works, Fetch(w) PROVE Contract!Next \/ phases' = phases
  BY <1>2 DEF Fetch
<1>3. ASSUME NEW w \in Works, Abort(w) PROVE Contract!Next \/ phases' = phases
  BY <1>3 DEF Abort
<1>4. CASE AddWork
  <2>1. cur[Main] \in Works /\ cur[Main] \in asked /\ reply[cur[Main]] = "none"
    BY <1>4 DEF AddWork, HandlerHasWork, OneCallServed, HandlerBusy, Eating
  <2> PICK w \in Works : w = cur[Main]
    BY <2>1
  <2>2. Accepted(w) /\ UNCHANGED <<asked, got, avail, derr>>
    BY <1>4 DEF AddWork, Schedule
  <2>3. CASE ModeOf[w] = "ALWAYS"
    <3>1. Contract!Answer(w)
      BY <2>1, <2>2, <2>3, ContractCookie DEF Accepted
    <3> QED
      BY <2>1, <3>1 DEF Contract!Next
  <2>4. CASE ModeOf[w] # "ALWAYS"
    <3>1. reply' = reply
      BY <2>1, <2>2, <2>4 DEF Accepted, TypeOK, ClientTypes
    <3> QED
      BY <2>2, <3>1, PhasesStay DEF clientVars
  <2> QED
    BY <2>3, <2>4
<1>5. CASE AddWorkToFullQueue
  BY <1>5 DEF AddWorkToFullQueue, Schedule, Full
<1>6. CASE ReplaceWork
  <2>1. cur[Main] \in Works /\ cur[Main] \in asked /\ reply[cur[Main]] = "none"
    BY <1>6 DEF ReplaceWork, HandlerHasWork, OneCallServed, HandlerBusy, Eating
  <2> PICK w \in Works : w = cur[Main]
    BY <2>1
  <2>2. Accepted(w) /\ UNCHANGED <<asked, got, avail, derr>>
    BY <1>6 DEF ReplaceWork, Schedule
  <2>3. CASE ModeOf[w] = "ALWAYS"
    <3>1. Contract!Answer(w)
      BY <2>1, <2>2, <2>3, ContractCookie DEF Accepted
    <3> QED
      BY <2>1, <3>1 DEF Contract!Next
  <2>4. CASE ModeOf[w] # "ALWAYS"
    <3>1. reply' = reply
      BY <2>1, <2>2, <2>4 DEF Accepted, TypeOK, ClientTypes
    <3> QED
      BY <2>2, <3>1, PhasesStay DEF clientVars
  <2> QED
    BY <2>3, <2>4
<1>7. CASE EatLookup
  BY <1>7 DEF EatLookup
<1>8. CASE EatUnknown
  <2>1. cur[Main] \in Works /\ HandlerBusy
    BY <1>8 DEF EatUnknown, HandlerHasWork, HandlerBusy, Eating
  <2> PICK w \in Works : w = cur[Main]
    BY <2>1
  <2>2. Contract!Answer(w)
    BY <1>8, <2>1, ContractRefusal
  <2> QED
    BY <2>2 DEF Contract!Next
<1>9. CASE StartWaiting
  BY <1>9 DEF StartWaiting
<1>10. CASE WaitEnds
  BY <1>10 DEF WaitEnds
<1>11. CASE EatResult
  <2>1. \E w \in Works : Contract!Answer(w) \/ Contract!Fetch(w)
    BY <1>11, ContractResult DEF EatResult
  <2> QED
    BY <2>1 DEF Contract!Next
<1>12. CASE LockAfterTimeout
  BY <1>12 DEF LockAfterTimeout
<1>13. CASE EatQuickly
  BY <1>13 DEF EatQuickly
<1>14. CASE EatLater
  <2>1. cur[Main] \in Works /\ cur[Main] \in asked /\ reply[cur[Main]] = "none"
    <3> DEFINE w == cur[Main]
    <3>1. w \in Works /\ w \in asked
      BY <1>14 DEF EatLater, HandlerHasWork, OneCallServed, HandlerBusy, Eating
    <3>2. reply[w] # "cookie"
      BY <1>14 DEF EatLater, PathKnown, Eating
    <3> QED
      BY <1>14, <3>1, <3>2 DEF EatLater, OneCallServed, HandlerBusy, Eating
  <2> PICK w \in Works : w = cur[Main]
    BY <2>1
  <2>2. Contract!Answer(w)
    BY <1>14, <2>1, ContractCookie DEF EatLater
  <2> QED
    BY <2>1, <2>2 DEF Contract!Next
<1>15. CASE Collect
  <2>1. \E w \in Works : Contract!Answer(w) \/ Contract!Fetch(w)
    BY <1>15, ContractResult DEF Collect
  <2> QED
    BY <2>1 DEF Contract!Next
<1>16. ASSUME NEW t \in Threads, CancelRunnable(t) PROVE Contract!Next \/
     phases' = phases
  BY <1>16 DEF CancelRunnable
<1>17. ASSUME NEW t \in Threads, Cancel(t) PROVE Contract!Next \/ phases' =
     phases
  BY <1>17 DEF Cancel, Return
<1>18. ASSUME NEW t \in Threads, NotifyJar(t) PROVE Contract!Next \/ phases' =
     phases
  BY <1>18 DEF NotifyJar
<1>19. ASSUME NEW t \in Threads, NotifyEaten(t) PROVE Contract!Next \/ phases'
     = phases
  BY <1>19 DEF NotifyEaten, Return
<1>20. ASSUME NEW t \in Threads, NotifyBlocks(t) PROVE Contract!Next \/
     phases' = phases
  BY <1>20 DEF NotifyBlocks
<1>21. ASSUME NEW t \in Threads, NotifyWakesUp(t) PROVE Contract!Next \/
     phases' = phases
  BY <1>21 DEF NotifyWakesUp
<1>22. ASSUME NEW t \in Threads, NotifyClient(t) PROVE Contract!Next \/
     phases' = phases
  BY <1>22, ContractNotify DEF Contract!Next
<1>23. ASSUME NEW t \in Threads, NEW q \in Queues, Purge(t, q) PROVE
     Contract!Next \/ phases' = phases
  BY <1>23 DEF Purge
<1>24. ASSUME NEW t \in Threads, NEW q \in Queues, Purged(t, q) PROVE
     Contract!Next \/ phases' = phases
  BY <1>24 DEF Purged
<1>25. ASSUME NEW q \in Queues, TakeWork(q) PROVE Contract!Next \/ phases' =
     phases
  BY <1>25 DEF TakeWork
<1>26. ASSUME NEW q \in Queues, SkipWork(q) PROVE Contract!Next \/ phases' =
     phases
  BY <1>26 DEF SkipWork, Advance
<1>27. ASSUME NEW q \in Queues, RunBegins(q) PROVE Contract!Next \/ phases' =
     phases
  BY <1>27 DEF RunBegins
<1>28. ASSUME NEW q \in Queues, NEW r \in Results, DoRun(q, r) PROVE
     Contract!Next \/ phases' = phases
  BY <1>28 DEF DoRun
<1>29. ASSUME NEW q \in Queues, RunEnds(q) PROVE Contract!Next \/ phases' =
     phases
  BY <1>29 DEF RunEnds
<1>30. ASSUME NEW q \in Queues, PopWork(q) PROVE Contract!Next \/ phases' =
     phases
  BY <1>30 DEF PopWork
<1>31. ASSUME NEW q \in Queues, WorkerStops(q) PROVE Contract!Next \/ phases'
     = phases
  BY <1>31 DEF WorkerStops
<1>32. CASE Quit
  BY <1>32 DEF Quit
<1>33. ASSUME NEW q \in Queues, Shutdown(q) PROVE Contract!Next \/ phases' =
     phases
  BY <1>33 DEF Shutdown
<1>34. CASE Join
  BY <1>34 DEF Join
<1>35. CASE UNCHANGED vars
  BY <1>35 DEF vars
<1>36. ASSUME NEW t \in Threads, Subroutine(t) PROVE Contract!Next \/ phases' = phases
  BY <1>16, <1>17, <1>18, <1>19, <1>20, <1>21, <1>22, <1>23, <1>24, <1>36 DEF
     Subroutine
<1>37. CASE Environment
  BY <1>1, <1>2, <1>3, <1>32, <1>37 DEF Environment
<1>38. CASE MainStep
  BY <1>4, <1>5, <1>6, <1>7, <1>8, <1>9, <1>10, <1>11, <1>12, <1>13, <1>14,
     <1>15, <1>33, <1>34, <1>36, <1>38 DEF MainStep
<1>39. ASSUME NEW q \in Queues, WorkerStep(q) PROVE Contract!Next \/ phases' = phases
  BY <1>25, <1>26, <1>27, <1>28, <1>29, <1>30, <1>31, <1>36, <1>39 DEF
     WorkerStep
<1> QED
  BY <1>35, <1>37, <1>38, <1>39 DEF Next

(* Every step of the broker is a step of the request/notify/fetch contract *)
(* or does not concern its clients, for any number of queues; calls of     *)
(* Disturbed may be refused.                                               *)
THEOREM ContractKept ==
    ASSUME ~EarlyFetch PROVE Spec => Contract!Safety
<1>1. Init => Contract!Init
  <2> SUFFICES ASSUME Init PROVE Contract!Init
    OBVIOUS
  <2>1. \A w \in Works : Phase(w) = "new"
    BY DEF Init, Phase
  <2> QED
    BY <2>1 DEF Contract!Init
<1>2. ContractInv /\ [Next]_vars => ContractInv'
  BY ContractNext
<1>3. ContractInv /\ ContractInv' /\ [Next]_vars =>
          [Contract!Next]_([w \in Works |-> Phase(w)])
  BY ContractStep DEF phases
<1> QED
  BY <1>1, <1>2, <1>3, ContractInit, PTL DEF Spec, Contract!Safety
=============================================================================
