-------------------------- MODULE AsyncWorkTracker ---------------------------
(***************************************************************************)
(* Proofs about AsyncWork, continued: every call is answered, an announced *)
(* result can be fetched, each work item is at one place in the queues,    *)
(* and the reply path trackers are used as they were meant to be used.     *)
(***************************************************************************)
EXTENDS AsyncWorkProofs

(* Main is in the handler of a method call, which may be busy canceling    *)
(* the work in progress to make room for the work of the call.             *)
HandlerBusy ==
    \/ pc[Main] \in Eating \cup {"add", "replace"}
    \/ pc[Main] \in Notifying \cup {"cancel"} /\ ret[Main] = "replace"

(* The handler serves a call that came in, either a method call that is    *)
(* not answered yet, or a fetch; and it is the only one that is pending.   *)
OneCallServed ==
    /\ \A w \in asked : reply[w] = "none" => HandlerBusy /\ cur[Main] = w
    /\ HandlerBusy => cur[Main] \in asked
    /\ HandlerBusy /\ reply[cur[Main]] # "none" =>
           pc[Main] \in Eating /\ reply[cur[Main]] = "cookie" /\ got[cur[Main]] = "none"
    /\ \A w \in Works : reply[w] # "none" => w \in asked

(* A result that nobody has got yet is in the jar, unless it was canceled. *)
JarInv ==
    /\ \A w \in asked : \/ w \in jar
                        \/ wstate[w] = "CANCELED"
                        \/ "result" \in {reply[w], got[w]}
    /\ \A w \in Works : avail[w] > 0 => wstate[w] = "DONE"
    /\ \A w \in Works : got[w] = "bad" => wstate[w] = "CANCELED"

AnswerInv == SignalInv /\ OneCallServed /\ JarInv

-----------------------------------------------------------------------------
(* The handler in Main has not put its work item into the queue yet. *)
NotQueuedYet == HandlerBusy /\ pc[Main] \notin Eating

NotStarted == {"RUNNABLE", "CANCELED"}

Elems(s) == {s[i] : i \in 1..Len(s)}
NoDup(s) == \A i, j \in 1..Len(s) : s[i] = s[j] => i = j

(* A work item is scheduled by the handler of its call, before anything    *)
(* else happens to it.                                                     *)
PathStarted ==
    /\ \A w \in Works \ asked : rp[w] = "NONE" /\ wstate[w] = "RUNNABLE"
    /\ \A w \in Works : reply[w] = "cookie" => rp[w] # "NONE"
    /\ HandlerBusy => (rp[cur[Main]] = "NONE" <=> pc[Main] = "add")

(* Works which are in a queue, run by a worker or canceled are scheduled.  *)
Scheduled ==
    /\ \A q \in Queues : wip[q] \in Works => rp[wip[q]] # "NONE"
    /\ \A q \in Queues : cur[q] \in Works => rp[cur[q]] # "NONE"
    /\ \A t \in Threads : obj[t] \in Works => rp[obj[t]] # "NONE"
    /\ \A q \in Queues : \A w \in Elems(queue[q]) : rp[w] # "NONE"

(* Each work item is at one place, in the queue made for it, and a queue   *)
(* is locked by Main or its own worker only.                               *)
InPlace(q) ==
    /\ wip[q] \in Works => QueueOf[wip[q]] = q
    /\ cur[q] \in Works => QueueOf[cur[q]] = q
    /\ obj[q] \in Works => QueueOf[obj[q]] = q
    /\ qlock[q] \in {q, Main, NoThread}
    /\ NoDup(queue[q])
    /\ \A w \in Elems(queue[q]) : QueueOf[w] = q /\ w # wip[q] /\ w # cur[q]

OnePlace == \A q \in Queues : InPlace(q)

(* The work of a call that is not in the queue yet is nowhere else. *)
NotElsewhere ==
    NotQueuedYet =>
        /\ \A q \in Queues : cur[Main] # wip[q] /\ cur[Main] # cur[q]
        /\ \A q \in Queues : cur[Main] \notin Elems(queue[q])
        /\ \A t \in Threads : cur[Main] # obj[t]
        /\ wstate[cur[Main]] = "RUNNABLE"

(* Work in a queue has not been started, except for the work in progress   *)
(* while the worker is busy with it.                                       *)
StartedByWorker ==
    /\ \A q \in Queues : \A w \in Elems(queue[q]) : wstate[w] \in NotStarted
    /\ \A q \in Queues : wip[q] \in Works /\ wstate[wip[q]] \notin NotStarted =>
           /\ cur[q] = wip[q]
           /\ \/ pc[q] \in Running \cup {"pop"}
              \/ pc[q] \in Notifying /\ ret[q] = "pop"
    /\ \A w \in Works : wstate[w] \in {"RUNNING", "CANCELING"} =>
           cur[QueueOf[w]] = w /\ pc[QueueOf[w]] \in Running

QueueInv ==
    AnswerInv /\ PathStarted /\ Scheduled /\ OnePlace /\ NotElsewhere /\ StartedByWorker

-----------------------------------------------------------------------------
(* The path of a call while its handler is at work, and when its result is *)
(* announced, provided that clients wait for DataAvailable.                *)
PathKnown ==
    /\ (NotQueuedYet /\ pc[Main] # "add") \/ pc[Main] \in {"eat", "wait"} =>
           rp[cur[Main]] = IF reply[cur[Main]] = "none" THEN "SCHEDULED"
                           ELSE "SLOW_PATH_READY_NOTIFIED"
    /\ pc[Main] \in Eating \ {"eat", "wait"} /\ reply[cur[Main]] = "none" =>
           rp[cur[Main]] \in {"WAITING", "FAST_PATH"}
    /\ pc[Main] \in Eating \ {"eat", "wait"} /\ reply[cur[Main]] = "cookie" =>
           rp[cur[Main]] = "SLOW_PATH_FETCHING" /\ pc[Main] \in {"waiting", "erase"}
    /\ pc[Main] \in Eating /\ reply[cur[Main]] = "cookie" => avail[cur[Main]] > 0
    /\ \A w \in Works : avail[w] > 0 /\ got[w] = "none" =>
           \/ rp[w] = "SLOW_PATH_READY_NOTIFIED"
           \/ pc[Main] \in {"waiting", "erase"} /\ cur[Main] = w
    /\ \A w \in Works : rp[w] # "SLOW_PATH_ENTERED"
    /\ \A w \in Works : ModeOf[w] = "ALWAYS" => rp[w] \in {"NONE", "SCHEDULED"}

(* A path on which a result has been delivered belongs to work that is at  *)
(* its end, and nobody is going to notify about it again.                  *)
PathIsLast ==
    \A w \in Works :
        rp[w] \in {"FAST_PATH", "SLOW_PATH_READY_NOTIFIED", "SLOW_PATH_FETCHING"} =>
            /\ wstate[w] \in Final
            /\ \A t \in Threads : pc[t] \in Notifying => obj[t] # w

(* The result of work is there when the work is done, and not before its   *)
(* worker has run it, once.                                                *)
DoneHasResult ==
    /\ \A q \in Queues : pc[q] = "dorun" => promise[cur[q]] = "unset"
    /\ \A q \in Queues : pc[q] = "finish" => promise[cur[q]] # "unset"
    /\ \A w \in Works : wstate[w] = "DONE" => promise[w] # "unset"
    /\ \A w \in Works : wstate[w] = "RUNNABLE" => promise[w] = "unset"

TrackerQuiet == bugs \subseteq {"RUN", "UNEXPECTED_FAILURE"}

TrackerInv ==
    QueueInv /\ CookieInv /\ PathKnown /\ PathIsLast /\ DoneHasResult /\ TrackerQuiet

-----------------------------------------------------------------------------
LEMMA OneCallServedNext == AnswerInv /\ [Next]_vars => OneCallServed'
<1> SUFFICES ASSUME TypeOK, OneCallServed, [Next]_vars
             PROVE  OneCallServed'
  BY DEF AnswerInv, SignalInv, TypeInv
<1> USE ConstantsAssumption, MainIsThread DEF TypeOK, ThreadTypes,
    ClientTypes, OneCallServed, HandlerBusy, Eating, Notifying, threadVars,
    clientVars
<1>1. ASSUME NEW w \in Works, Request(w) PROVE OneCallServed'
  BY <1>1 DEF Request
<1>2. ASSUME NEW w \in Works, Fetch(w) PROVE OneCallServed'
  BY <1>2 DEF Fetch
<1>3. ASSUME NEW w \in Works, Abort(w) PROVE OneCallServed'
  BY <1>3 DEF Abort
<1>4. CASE AddWork
  BY <1>4 DEF AddWork, Schedule, Enqueue, Accepted
<1>5. CASE AddWorkToFullQueue
  BY <1>5 DEF AddWorkToFullQueue, Schedule, Full
<1>6. CASE ReplaceWork
  BY <1>6 DEF ReplaceWork, Enqueue, Accepted
<1>7. CASE EatLookup
  BY <1>7 DEF EatLookup
<1>8. CASE EatUnknown
  BY <1>8 DEF EatUnknown, HandlerDone, Fetching
<1>9. CASE StartWaiting
  BY <1>9 DEF StartWaiting
<1>10. CASE WaitEnds
  BY <1>10 DEF WaitEnds
<1>11. CASE EatResult
  BY <1>11 DEF EatResult, HandlerDone, Deliver, Fetching
<1>12. CASE LockAfterTimeout
  BY <1>12 DEF LockAfterTimeout
<1>13. CASE EatQuickly
  BY <1>13 DEF EatQuickly
<1>14. CASE EatLater
  BY <1>14 DEF EatLater, HandlerDone
<1>15. CASE Collect
  BY <1>15 DEF Collect, HandlerDone, Deliver, Fetching
<1>16. ASSUME NEW t \in Threads, CancelRunnable(t) PROVE OneCallServed'
  BY <1>16 DEF CancelRunnable
<1>17. ASSUME NEW t \in Threads, Cancel(t) PROVE OneCallServed'
  BY <1>17 DEF Cancel, Return
<1>18. ASSUME NEW t \in Threads, NotifyJar(t) PROVE OneCallServed'
  BY <1>18 DEF NotifyJar
<1>19. ASSUME NEW t \in Threads, NotifyEaten(t) PROVE OneCallServed'
  BY <1>19 DEF NotifyEaten, Return
<1>20. ASSUME NEW t \in Threads, NotifyBlocks(t) PROVE OneCallServed'
  BY <1>20 DEF NotifyBlocks
<1>21. ASSUME NEW t \in Threads, NotifyWakesUp(t) PROVE OneCallServed'
  BY <1>21 DEF NotifyWakesUp
<1>22. ASSUME NEW t \in Threads, NotifyClient(t) PROVE OneCallServed'
  BY <1>22 DEF NotifyClient, Return
<1>23. ASSUME NEW t \in Threads, NEW q \in Queues, Purge(t, q) PROVE
     OneCallServed'
  BY <1>23 DEF Purge
<1>24. ASSUME NEW t \in Threads, NEW q \in Queues, Purged(t, q) PROVE
     OneCallServed'
  BY <1>24 DEF Purged
<1>25. ASSUME NEW q \in Queues, TakeWork(q) PROVE OneCallServed'
  BY <1>25 DEF TakeWork
<1>26. ASSUME NEW q \in Queues, SkipWork(q) PROVE OneCallServed'
  BY <1>26 DEF SkipWork, Advance
<1>27. ASSUME NEW q \in Queues, RunBegins(q) PROVE OneCallServed'
  BY <1>27 DEF RunBegins
<1>28. ASSUME NEW q \in Queues, NEW r \in Results, DoRun(q, r) PROVE
     OneCallServed'
  BY <1>28 DEF DoRun
<1>29. ASSUME NEW q \in Queues, RunEnds(q) PROVE OneCallServed'
  BY <1>29 DEF RunEnds
<1>30. ASSUME NEW q \in Queues, PopWork(q) PROVE OneCallServed'
  BY <1>30 DEF PopWork
<1>31. ASSUME NEW q \in Queues, WorkerStops(q) PROVE OneCallServed'
  BY <1>31 DEF WorkerStops
<1>32. CASE Quit
  BY <1>32 DEF Quit
<1>33. ASSUME NEW q \in Queues, Shutdown(q) PROVE OneCallServed'
  BY <1>33 DEF Shutdown
<1>34. CASE Join
  BY <1>34 DEF Join
<1>35. CASE UNCHANGED vars
  BY <1>35 DEF vars
<1>36. ASSUME NEW t \in Threads, Subroutine(t) PROVE OneCallServed'
  BY <1>16, <1>17, <1>18, <1>19, <1>20, <1>21, <1>22, <1>23, <1>24, <1>36 DEF
     Subroutine
<1>37. CASE Environment
  BY <1>1, <1>2, <1>3, <1>32, <1>37 DEF Environment
<1>38. CASE MainStep
  BY <1>4, <1>5, <1>6, <1>7, <1>8, <1>9, <1>10, <1>11, <1>12, <1>13, <1>14,
     <1>15, <1>33, <1>34, <1>36, <1>38 DEF MainStep
<1>39. ASSUME NEW q \in Queues, WorkerStep(q) PROVE OneCallServed'
  BY <1>25, <1>26, <1>27, <1>28, <1>29, <1>30, <1>31, <1>36, <1>39 DEF
     WorkerStep
<1> QED
  BY <1>35, <1>37, <1>38, <1>39 DEF Next

LEMMA JarNext == AnswerInv /\ [Next]_vars => JarInv'
<1> SUFFICES ASSUME TypeOK, ThreadHasWork, OneNotifier, OneCallServed, JarInv,
                    [Next]_vars
             PROVE  JarInv'
  BY DEF AnswerInv, SignalInv, TypeInv
<1> USE ConstantsAssumption, MainIsThread DEF TypeOK, ThreadTypes, WorkTypes,
    JarTypes, ClientTypes, JarInv, OneNotifier, ThreadHasWork, Notifying,
    Running, Final, threadVars, workVars, jarVars, clientVars
<1>1. ASSUME NEW w \in Works, Request(w) PROVE JarInv'
  BY <1>1 DEF Request
<1>2. ASSUME NEW w \in Works, Fetch(w) PROVE JarInv'
  BY <1>2 DEF Fetch
<1>3. ASSUME NEW w \in Works, Abort(w) PROVE JarInv'
  BY <1>3 DEF Abort
<1>4. CASE AddWork
  BY <1>4 DEF AddWork, Schedule, Enqueue, Accepted, OneCallServed,
     HandlerBusy, Eating
<1>5. CASE AddWorkToFullQueue
  BY <1>5 DEF AddWorkToFullQueue, Schedule, Full
<1>6. CASE ReplaceWork
  BY <1>6 DEF ReplaceWork, Enqueue, Accepted, OneCallServed, HandlerBusy,
     Eating
<1>7. CASE EatLookup
  BY <1>7 DEF EatLookup
<1>8. CASE EatUnknown
  BY <1>8 DEF EatUnknown, HandlerDone, Fetching, OneCallServed, HandlerBusy,
     Eating
<1>9. CASE StartWaiting
  BY <1>9 DEF StartWaiting
<1>10. CASE WaitEnds
  BY <1>10 DEF WaitEnds
<1>11. CASE EatResult
  BY <1>11 DEF EatResult, HandlerDone, Deliver, Fetching, OneCallServed,
     HandlerBusy, Eating
<1>12. CASE LockAfterTimeout
  BY <1>12 DEF LockAfterTimeout
<1>13. CASE EatQuickly
  BY <1>13 DEF EatQuickly
<1>14. CASE EatLater
  BY <1>14 DEF EatLater, HandlerDone, OneCallServed, HandlerBusy, Eating
<1>15. CASE Collect
  BY <1>15 DEF Collect, HandlerDone, Deliver, Fetching, OneCallServed,
     HandlerBusy, Eating
<1>16. ASSUME NEW t \in Threads, CancelRunnable(t) PROVE JarInv'
  BY <1>16 DEF CancelRunnable, CancelAtOnce
<1>17. ASSUME NEW t \in Threads, Cancel(t) PROVE JarInv'
  BY <1>17 DEF Cancel, Return
<1>18. ASSUME NEW t \in Threads, NotifyJar(t) PROVE JarInv'
  BY <1>18 DEF NotifyJar, LeavesJar
<1>19. ASSUME NEW t \in Threads, NotifyEaten(t) PROVE JarInv'
  BY <1>19 DEF NotifyEaten, Return
<1>20. ASSUME NEW t \in Threads, NotifyBlocks(t) PROVE JarInv'
  BY <1>20 DEF NotifyBlocks
<1>21. ASSUME NEW t \in Threads, NotifyWakesUp(t) PROVE JarInv'
  BY <1>21 DEF NotifyWakesUp
<1>22. ASSUME NEW t \in Threads, NotifyClient(t) PROVE JarInv'
  BY <1>22 DEF NotifyClient, Return, Success
<1>23. ASSUME NEW t \in Threads, NEW q \in Queues, Purge(t, q) PROVE JarInv'
  BY <1>23 DEF Purge
<1>24. ASSUME NEW t \in Threads, NEW q \in Queues, Purged(t, q) PROVE JarInv'
  BY <1>24 DEF Purged
<1>25. ASSUME NEW q \in Queues, TakeWork(q) PROVE JarInv'
  BY <1>25 DEF TakeWork
<1>26. ASSUME NEW q \in Queues, SkipWork(q) PROVE JarInv'
  BY <1>26 DEF SkipWork, Advance
<1>27. ASSUME NEW q \in Queues, RunBegins(q) PROVE JarInv'
  BY <1>27 DEF RunBegins
<1>28. ASSUME NEW q \in Queues, NEW r \in Results, DoRun(q, r) PROVE JarInv'
  BY <1>28 DEF DoRun
<1>29. ASSUME NEW q \in Queues, RunEnds(q) PROVE JarInv'
  BY <1>29 DEF RunEnds
<1>30. ASSUME NEW q \in Queues, PopWork(q) PROVE JarInv'
  BY <1>30 DEF PopWork
<1>31. ASSUME NEW q \in Queues, WorkerStops(q) PROVE JarInv'
  BY <1>31 DEF WorkerStops
<1>32. CASE Quit
  BY <1>32 DEF Quit
<1>33. ASSUME NEW q \in Queues, Shutdown(q) PROVE JarInv'
  BY <1>33 DEF Shutdown
<1>34. CASE Join
  BY <1>34 DEF Join
<1>35. CASE UNCHANGED vars
  BY <1>35 DEF vars
<1>36. ASSUME NEW t \in Threads, Subroutine(t) PROVE JarInv'
  BY <1>16, <1>17, <1>18, <1>19, <1>20, <1>21, <1>22, <1>23, <1>24, <1>36 DEF
     Subroutine
<1>37. CASE Environment
  BY <1>1, <1>2, <1>3, <1>32, <1>37 DEF Environment
<1>38. CASE MainStep
  BY <1>4, <1>5, <1>6, <1>7, <1>8, <1>9, <1>10, <1>11, <1>12, <1>13, <1>14,
     <1>15, <1>33, <1>34, <1>36, <1>38 DEF MainStep
<1>39. ASSUME NEW q \in Queues, WorkerStep(q) PROVE JarInv'
  BY <1>25, <1>26, <1>27, <1>28, <1>29, <1>30, <1>31, <1>36, <1>39 DEF
     WorkerStep
<1> QED
  BY <1>35, <1>37, <1>38, <1>39 DEF Next

LEMMA AnswerInit == Init => AnswerInv
  BY SignalInit, MainIsThread, ConstantsAssumption
  DEF Init, AnswerInv, OneCallServed, JarInv, HandlerBusy, Eating, Notifying

LEMMA AnswerNext == AnswerInv /\ [Next]_vars => AnswerInv'
<1>1. AnswerInv /\ [Next]_vars => SignalInv'
  BY SignalNext DEF AnswerInv
<1> QED
  BY <1>1, OneCallServedNext, JarNext DEF AnswerInv

(* When the main loop is back in control, no caller is left without an     *)
(* answer, on every path through the handlers.                             *)
THEOREM AllCallsAnswered == Spec => []EveryCallAnswered
<1>1. AnswerInv => EveryCallAnswered
  BY DEF AnswerInv, OneCallServed, HandlerBusy, Eating, Notifying, EveryCallAnswered
<1> QED
  BY <1>1, AnswerInit, AnswerNext, PTL DEF Spec

(* What DataAvailable has announced is never refused as a bad cookie, for  *)
(* clients that fetch early, too.                                          *)
THEOREM AnnouncedIsFetchable == Spec => []AvailableIsFetchable
<1>1. AnswerInv => AvailableIsFetchable
  BY DEF AnswerInv, JarInv, AvailableIsFetchable
<1> QED
  BY <1>1, AnswerInit, AnswerNext, PTL DEF Spec
-----------------------------------------------------------------------------

LEMMA AppendElems ==
    ASSUME NEW S, NEW s \in Seq(S), NEW x \in S
    PROVE  /\ Append(s, x) \in Seq(S)
           /\ Elems(Append(s, x)) = Elems(s) \cup {x}
           /\ NoDup(s) /\ x \notin Elems(s) => NoDup(Append(s, x))
<1>1. Elems(Append(s, x)) = Elems(s) \cup {x}
  <2>1. ASSUME NEW y \in Elems(Append(s, x)) PROVE y \in Elems(s) \cup {x}
    BY <2>1 DEF Elems
  <2>2. ASSUME NEW y \in Elems(s) PROVE y \in Elems(Append(s, x))
    <3>1. PICK i \in 1..Len(s) : y = s[i]
      BY <2>2 DEF Elems
    <3>2. i \in 1..Len(Append(s, x)) /\ Append(s, x)[i] = y
      BY <3>1
    <3> QED
      BY <3>2 DEF Elems
  <2>3. x \in Elems(Append(s, x))
    <3>1. Len(s) + 1 \in 1..Len(Append(s, x)) /\ Append(s, x)[Len(s) + 1] = x
      OBVIOUS
    <3> QED
      BY <3>1 DEF Elems
  <2> QED
    BY <2>1, <2>2, <2>3
<1>2. ASSUME NoDup(s), x \notin Elems(s) PROVE NoDup(Append(s, x))
  BY <1>2 DEF Elems, NoDup
<1> QED
  BY <1>1, <1>2

LEMMA TailElems ==
    ASSUME NEW S, NEW s \in Seq(S), s # <<>>
    PROVE  /\ Head(s) \in S /\ Tail(s) \in Seq(S)
           /\ Head(s) \in Elems(s)
           /\ Elems(Tail(s)) \subseteq Elems(s)
           /\ NoDup(s) => NoDup(Tail(s)) /\ Head(s) \notin Elems(Tail(s))
<1>1. /\ Len(s) \in Nat \ {0} /\ Len(Tail(s)) = Len(s) - 1
      /\ \A i \in 1..Len(Tail(s)) : i + 1 \in 1..Len(s) /\ Tail(s)[i] = s[i + 1]
      /\ Head(s) = s[1]
  OBVIOUS
<1>2. Head(s) \in Elems(s) /\ Elems(Tail(s)) \subseteq Elems(s)
  BY <1>1 DEF Elems
<1>3. ASSUME NoDup(s) PROVE NoDup(Tail(s)) /\ Head(s) \notin Elems(Tail(s))
  <2>1. ASSUME NEW i \in 1..Len(Tail(s)), NEW j \in 1..Len(Tail(s)),
               Tail(s)[i] = Tail(s)[j]
        PROVE  i = j
    BY <1>1, <1>3, <2>1 DEF NoDup
  <2>2. ASSUME NEW i \in 1..Len(Tail(s)), Head(s) = Tail(s)[i] PROVE FALSE
    BY <1>1, <1>3, <2>2 DEF NoDup
  <2> QED
    BY <2>1, <2>2 DEF NoDup, Elems
<1> QED
  BY <1>2, <1>3

(* What queue_work() does to the queue. *)
LEMMA EnqueueElems ==
    ASSUME QueueTypes, NEW q \in Queues, NEW w \in Works, NEW busy \in BOOLEAN,
           Enqueue(q, w, busy)
    PROVE  /\ \A p \in Queues \ {q} : queue'[p] = queue[p] /\ wip'[p] = wip[p]
           /\ wip'[q] \in Elems(queue[q]) \cup {wip[q], w}
           /\ Elems(queue'[q]) \subseteq Elems(queue[q]) \cup {w}
           /\ w \notin Elems(queue[q]) /\ NoDup(queue[q]) => NoDup(queue'[q])
           /\ w \notin Elems(queue[q]) /\ NoDup(queue[q]) /\ wip[q] \notin Elems(queue[q])
                 /\ w # wip[q] => wip'[q] \notin Elems(queue'[q])
<1> DEFINE s == queue[q]
<1>1. s \in Seq(Works)
  BY DEF QueueTypes
<1>2. CASE busy
  <2>1. wip'[q] = wip[q] /\ queue'[q] = Append(s, w)
    BY <1>2 DEF Enqueue, QueueTypes
  <2>2. Elems(queue'[q]) = Elems(s) \cup {w}
    BY <1>1, <2>1, AppendElems
  <2>3. w \notin Elems(s) /\ NoDup(s) => NoDup(queue'[q])
    BY <1>1, <2>1, AppendElems
  <2> QED
    BY <2>1, <2>2, <2>3 DEF Enqueue, QueueTypes
<1>3. CASE ~busy /\ s = <<>>
  <2>1. wip'[q] = w /\ queue'[q] = <<>>
    BY <1>3 DEF Enqueue, QueueTypes
  <2>2. Elems(<<>>) = {} /\ NoDup(<<>>)
    BY DEF Elems, NoDup
  <2> QED
    BY <2>1, <2>2 DEF Enqueue, QueueTypes
<1>4. CASE ~busy /\ s # <<>>
  <2>1. wip'[q] = Head(s) /\ queue'[q] = Append(Tail(s), w)
    BY <1>4 DEF Enqueue, QueueTypes
  <2>2. /\ Head(s) \in Elems(s) /\ Tail(s) \in Seq(Works)
        /\ Elems(Tail(s)) \subseteq Elems(s)
        /\ NoDup(s) => NoDup(Tail(s)) /\ Head(s) \notin Elems(Tail(s))
    BY <1>1, <1>4, TailElems
  <2> DEFINE r == Tail(s)
  <2>3. r \in Seq(Works)
    BY <2>2
  <2> HIDE DEF r
  <2>4. /\ Elems(Append(r, w)) = Elems(r) \cup {w}
        /\ w \notin Elems(r) /\ NoDup(r) => NoDup(Append(r, w))
    BY <2>3, AppendElems
  <2> QED
    BY <2>1, <2>2, <2>4 DEF Enqueue, QueueTypes, r
<1> QED
  BY <1>2, <1>3, <1>4

(* Nothing new gets into queue p, and what becomes the work in progress    *)
(* comes from its backlog.                                                 *)
Shrinks(p) ==
    /\ Elems(queue'[p]) \subseteq Elems(queue[p])
    /\ NoDup(queue[p]) => NoDup(queue'[p])
    /\ \/ wip'[p] \in {wip[p], NoWork}
       \/ /\ wip'[p] \in Elems(queue[p])
          /\ NoDup(queue[p]) => wip'[p] \notin Elems(queue'[p])

LEMMA ElemsInWorks ==
    ASSUME QueueTypes, NEW q \in Queues PROVE Elems(queue[q]) \subseteq Works
  BY DEF QueueTypes, Elems

LEMMA DequeueShrinks ==
    ASSUME QueueTypes, NEW p \in Queues,
           \/ queue'[p] = queue[p] /\ wip'[p] \in {wip[p], NoWork}
           \/ /\ queue[p] # <<>> /\ queue'[p] = Tail(queue[p])
              /\ wip'[p] \in {wip[p], NoWork, Head(queue[p])}
    PROVE  Shrinks(p)
<1>1. queue[p] \in Seq(Works)
  BY DEF QueueTypes
<1>2. CASE queue'[p] = queue[p] /\ wip'[p] \in {wip[p], NoWork}
  BY <1>2 DEF Shrinks
<1>3. CASE /\ queue[p] # <<>> /\ queue'[p] = Tail(queue[p])
           /\ wip'[p] \in {wip[p], NoWork, Head(queue[p])}
  BY <1>1, <1>3, TailElems DEF Shrinks
<1> QED
  BY <1>2, <1>3

(* process_work_item() and cancel_all_work() only take from the queues. *)
LEMMA WorkersShrink ==
    ASSUME QueueTypes, NEW q \in Queues, NEW t \in Threads, NEW p \in Queues,
           SkipWork(q) \/ PopWork(q) \/ Purge(t, q)
    PROVE  Shrinks(p)
<1> SUFFICES \/ queue'[p] = queue[p] /\ wip'[p] \in {wip[p], NoWork}
             \/ /\ queue[p] # <<>> /\ queue'[p] = Tail(queue[p])
                /\ wip'[p] \in {wip[p], NoWork, Head(queue[p])}
  BY DequeueShrinks
<1>1. CASE SkipWork(q)
  BY <1>1 DEF SkipWork, Advance, QueueTypes
<1>2. CASE PopWork(q)
  BY <1>2 DEF PopWork, QueueTypes
<1>3. CASE Purge(t, q)
  BY <1>3 DEF Purge, QueueTypes
<1> QED
  BY <1>1, <1>2, <1>3
-----------------------------------------------------------------------------

(* A thread that returns from a cancelation or notification is back where  *)
(* it came from: this does not begin or end a call.                        *)
LEMMA ReturnToHandler ==
    ASSUME TypeOK, NEW t \in Threads, pc[t] \in Notifying \cup {"cancel"},
           Return(t), cur' = cur, ret' = ret
    PROVE  /\ HandlerBusy' <=> HandlerBusy
           /\ NotQueuedYet' <=> NotQueuedYet
           /\ pc'[Main] = "add" <=> pc[Main] = "add"
           /\ \A u \in Threads : obj'[u] \in {obj[u], NoWork}
  BY MainIsThread
  DEF TypeOK, ThreadTypes, Return, HandlerBusy, NotQueuedYet, Eating, Notifying

LEMMA PathStartedNext == QueueInv /\ [Next]_vars => PathStarted'
<1> SUFFICES ASSUME TypeOK, ThreadHasWork, OneCallServed, PathStarted,
                    Scheduled, [Next]_vars
             PROVE  PathStarted'
  BY DEF QueueInv, AnswerInv, SignalInv, TypeInv
<1> USE ConstantsAssumption, MainIsThread DEF TypeOK, ThreadTypes, WorkTypes,
    ClientTypes, PathStarted, OneCallServed, HandlerBusy, Eating, Notifying,
    threadVars, workVars, clientVars
<1>1. ASSUME NEW w \in Works, Request(w) PROVE PathStarted'
  BY <1>1 DEF Request
<1>2. ASSUME NEW w \in Works, Fetch(w) PROVE PathStarted'
  BY <1>2 DEF Fetch
<1>3. ASSUME NEW w \in Works, Abort(w) PROVE PathStarted'
  BY <1>3 DEF Abort
<1>4. CASE AddWork
  BY <1>4 DEF AddWork, Schedule, Enqueue, Accepted, SetScheduled,
     SetScheduledOk
<1>5. CASE AddWorkToFullQueue
  BY <1>5 DEF AddWorkToFullQueue, Schedule, Full, SetScheduled, SetScheduledOk
<1>6. CASE ReplaceWork
  BY <1>6 DEF ReplaceWork, Enqueue, Accepted
<1>7. CASE EatLookup
  BY <1>7 DEF EatLookup
<1>8. CASE EatUnknown
  BY <1>8 DEF EatUnknown, HandlerDone, Fetching
<1>9. CASE StartWaiting
  BY <1>9 DEF StartWaiting, SetWaiting
<1>10. CASE WaitEnds
  BY <1>10 DEF WaitEnds
<1>11. CASE EatResult
  BY <1>11 DEF EatResult, HandlerDone, Deliver, Fetching
<1>12. CASE LockAfterTimeout
  BY <1>12 DEF LockAfterTimeout
<1>13. CASE EatQuickly
  BY <1>13 DEF EatQuickly
<1>14. CASE EatLater
  BY <1>14 DEF EatLater, HandlerDone, SlowPathCookieSent,
     SlowPathCookieSentOk, TakeSlowPath
<1>15. CASE Collect
  BY <1>15 DEF Collect, HandlerDone, Deliver, Fetching
<1>16. ASSUME NEW t \in Threads, CancelRunnable(t) PROVE PathStarted'
  BY <1>16 DEF CancelRunnable, ThreadHasWork, Scheduled
<1>17. ASSUME NEW t \in Threads, Cancel(t) PROVE PathStarted'
  BY <1>17, ReturnToHandler DEF Cancel, Return, ThreadHasWork, Scheduled
<1>18. ASSUME NEW t \in Threads, NotifyJar(t) PROVE PathStarted'
  BY <1>18 DEF NotifyJar
<1>19. ASSUME NEW t \in Threads, NotifyEaten(t) PROVE PathStarted'
  BY <1>19, ReturnToHandler DEF NotifyEaten, Return
<1>20. ASSUME NEW t \in Threads, NotifyBlocks(t) PROVE PathStarted'
  BY <1>20 DEF NotifyBlocks
<1>21. ASSUME NEW t \in Threads, NotifyWakesUp(t) PROVE PathStarted'
  BY <1>21 DEF NotifyWakesUp
<1>22. ASSUME NEW t \in Threads, NotifyClient(t) PROVE PathStarted'
  BY <1>22, ReturnToHandler DEF NotifyClient, Return, ThreadHasWork,
     TakeFastPath, SlowPathReadyNotified, SlowPathReadyNotifiedOk
<1>23. ASSUME NEW t \in Threads, NEW q \in Queues, Purge(t, q) PROVE
     PathStarted'
  BY <1>23 DEF Purge
<1>24. ASSUME NEW t \in Threads, NEW q \in Queues, Purged(t, q) PROVE
     PathStarted'
  BY <1>24 DEF Purged
<1>25. ASSUME NEW q \in Queues, TakeWork(q) PROVE PathStarted'
  BY <1>25 DEF TakeWork
<1>26. ASSUME NEW q \in Queues, SkipWork(q) PROVE PathStarted'
  BY <1>26 DEF SkipWork, Advance
<1>27. ASSUME NEW q \in Queues, RunBegins(q) PROVE PathStarted'
  BY <1>27 DEF RunBegins, ThreadHasWork, Scheduled
<1>28. ASSUME NEW q \in Queues, NEW r \in Results, DoRun(q, r) PROVE
     PathStarted'
  BY <1>28 DEF DoRun
<1>29. ASSUME NEW q \in Queues, RunEnds(q) PROVE PathStarted'
  BY <1>29 DEF RunEnds, ThreadHasWork, Running, Scheduled
<1>30. ASSUME NEW q \in Queues, PopWork(q) PROVE PathStarted'
  BY <1>30 DEF PopWork
<1>31. ASSUME NEW q \in Queues, WorkerStops(q) PROVE PathStarted'
  BY <1>31 DEF WorkerStops
<1>32. CASE Quit
  BY <1>32 DEF Quit
<1>33. ASSUME NEW q \in Queues, Shutdown(q) PROVE PathStarted'
  BY <1>33 DEF Shutdown
<1>34. CASE Join
  BY <1>34 DEF Join
<1>35. CASE UNCHANGED vars
  BY <1>35 DEF vars
<1>36. ASSUME NEW t \in Threads, Subroutine(t) PROVE PathStarted'
  BY <1>16, <1>17, <1>18, <1>19, <1>20, <1>21, <1>22, <1>23, <1>24, <1>36 DEF
     Subroutine
<1>37. CASE Environment
  BY <1>1, <1>2, <1>3, <1>32, <1>37 DEF Environment
<1>38. CASE MainStep
  BY <1>4, <1>5, <1>6, <1>7, <1>8, <1>9, <1>10, <1>11, <1>12, <1>13, <1>14,
     <1>15, <1>33, <1>34, <1>36, <1>38 DEF MainStep
<1>39. ASSUME NEW q \in Queues, WorkerStep(q) PROVE PathStarted'
  BY <1>25, <1>26, <1>27, <1>28, <1>29, <1>30, <1>31, <1>36, <1>39 DEF
     WorkerStep
<1> QED
  BY <1>35, <1>37, <1>38, <1>39 DEF Next

(* The handler puts its work into the queue; no other thread is involved. *)
Enqueues(w, q) ==
    /\ w \in Works /\ q \in Queues /\ q = QueueOf[w]
    /\ \A p \in Queues : p # q => queue'[p] = queue[p] /\ wip'[p] = wip[p]
    /\ wip'[q] \in Elems(queue[q]) \cup {wip[q], w}
    /\ Elems(queue'[q]) \subseteq Elems(queue[q]) \cup {w}
    /\ w \notin Elems(queue[q]) /\ NoDup(queue[q]) =>
           /\ NoDup(queue'[q])
           /\ wip[q] \notin Elems(queue[q]) \cup {w} => wip'[q] \notin Elems(queue'[q])
    /\ \A p \in Queues : cur'[p] = cur[p] /\ pc'[p] = pc[p]
    /\ pc'[Main] \in {"idle", "eat"} /\ obj' = obj /\ ret' = ret /\ wstate' = wstate
    /\ rp'[w] # "NONE"
    /\ \A v \in Works : rp[v] # "NONE" => rp'[v] # "NONE"

LEMMA HandlerEnqueues ==
    ASSUME TypeOK, HandlerHasWork, PathStarted, AddWork \/ ReplaceWork
    PROVE  Enqueues(cur[Main], QueueOf[cur[Main]])
<1> DEFINE w == cur[Main]
           q == QueueOf[w]
<1>1. w \in Works /\ q \in Queues
  BY ConstantsAssumption DEF HandlerHasWork, AddWork, ReplaceWork
<1>2. PICK busy \in BOOLEAN : Enqueue(q, w, busy)
  BY DEF AddWork, ReplaceWork
<1>3. QueueTypes
  BY DEF TypeOK
<1> HIDE DEF w, q
<1>4. /\ \A p \in Queues : p # q => queue'[p] = queue[p] /\ wip'[p] = wip[p]
      /\ wip'[q] \in Elems(queue[q]) \cup {wip[q], w}
      /\ Elems(queue'[q]) \subseteq Elems(queue[q]) \cup {w}
      /\ w \notin Elems(queue[q]) /\ NoDup(queue[q]) =>
             /\ NoDup(queue'[q])
             /\ wip[q] \notin Elems(queue[q]) \cup {w} => wip'[q] \notin Elems(queue'[q])
  BY <1>1, <1>2, <1>3, EnqueueElems
<1>5. /\ \A p \in Queues : cur'[p] = cur[p] /\ pc'[p] = pc[p]
      /\ pc'[Main] \in {"idle", "eat"} /\ obj' = obj /\ ret' = ret /\ wstate' = wstate
  BY ConstantsAssumption, MainIsThread
  DEF TypeOK, ThreadTypes, AddWork, ReplaceWork, Schedule, Accepted, workVars
<1>6. rp'[w] # "NONE" /\ \A v \in Works : rp[v] # "NONE" => rp'[v] # "NONE"
  <2>1. CASE AddWork
    BY <1>1, <2>1 DEF TypeOK, WorkTypes, AddWork, Schedule, SetScheduled, SetScheduledOk, w
  <2>2. CASE ReplaceWork
    BY <1>1, <2>2 DEF ReplaceWork, PathStarted, HandlerBusy, workVars, w
  <2> QED
    BY <2>1, <2>2
<1> QED
  BY <1>1, <1>4, <1>5, <1>6 DEF Enqueues, w, q

LEMMA EnqueueScheduled ==
    ASSUME NEW w, NEW q, Enqueues(w, q), Scheduled, QueueTypes
    PROVE  Scheduled'
<1> SUFFICES ASSUME NEW p \in Queues
             PROVE  /\ wip'[p] \in Works => rp'[wip'[p]] # "NONE"
                    /\ cur'[p] \in Works => rp'[cur'[p]] # "NONE"
                    /\ \A v \in Elems(queue'[p]) : rp'[v] # "NONE"
  BY DEF Enqueues, Scheduled
<1>1. Elems(queue[p]) \subseteq Works
  BY ElemsInWorks
<1>2. CASE p = q
  BY <1>1, <1>2 DEF Enqueues, Scheduled
<1>3. CASE p # q
  BY <1>1, <1>3 DEF Enqueues, Scheduled
<1> QED
  BY <1>2, <1>3

LEMMA EnqueueInPlace ==
    ASSUME NEW w, NEW q, Enqueues(w, q), QueueTypes, OnePlace, NEW p \in Queues,
           w # wip[q] /\ w # cur[q] /\ w \notin Elems(queue[q]),
           qlock'[p] \in {qlock[p], NoThread}
    PROVE  InPlace(p)'
<1>1. Elems(queue[p]) \subseteq Works
  BY ElemsInWorks
<1>2. CASE p = q
  <2>1. NoDup(queue'[q]) /\ wip'[q] \notin Elems(queue'[q])
    BY <1>2 DEF Enqueues, OnePlace, InPlace
  <2> QED
    BY <1>1, <1>2, <2>1 DEF Enqueues, OnePlace, InPlace
<1>3. CASE p # q
  BY <1>1, <1>3 DEF Enqueues, OnePlace, InPlace
<1> QED
  BY <1>2, <1>3

LEMMA ShrinkInPlace ==
    ASSUME NEW p \in Queues, Shrinks(p), QueueTypes, OnePlace,
           cur'[p] \in {cur[p], NoWork}, qlock' = qlock,
           obj'[p] \in Works => QueueOf[obj'[p]] = p
    PROVE  InPlace(p)'
<1>1. Elems(queue[p]) \subseteq Works /\ NoWork \notin Works
  BY ElemsInWorks, ConstantsAssumption
<1> QED
  BY <1>1 DEF Shrinks, OnePlace, InPlace

LEMMA ShrinkNotElsewhere ==
    ASSUME \A p \in Queues : Shrinks(p), QueueTypes, NotElsewhere, HandlerHasWork,
           NotQueuedYet' => NotQueuedYet, wstate' = wstate, cur'[Main] = cur[Main],
           \A p \in Queues : cur'[p] \in {cur[p], NoWork},
           \A t \in Threads : \/ obj'[t] = obj[t]
                              \/ \E p \in Queues : obj'[t] \in Elems(queue[p]) \cup {wip[p]}
    PROVE  NotElsewhere'
<1> SUFFICES ASSUME NotQueuedYet
             PROVE  /\ \A q \in Queues : cur[Main] # wip'[q] /\ cur[Main] # cur'[q]
                    /\ \A q \in Queues : cur[Main] \notin Elems(queue'[q])
                    /\ \A t \in Threads : cur[Main] # obj'[t]
  BY DEF NotElsewhere
<1>1. cur[Main] # NoWork
  BY ConstantsAssumption DEF NotQueuedYet, HandlerBusy, HandlerHasWork
<1> QED
  BY <1>1 DEF Shrinks, NotElsewhere

LEMMA EnqueueStarted ==
    ASSUME NEW w, NEW q, Enqueues(w, q), QueueTypes, StartedByWorker,
           wstate[w] = "RUNNABLE"
    PROVE  StartedByWorker'
<1>1. \A p \in Queues : Elems(queue[p]) \subseteq Works
  BY ElemsInWorks
<1>2. ASSUME NEW p \in Queues
      PROVE  /\ \A v \in Elems(queue'[p]) : wstate[v] \in NotStarted
             /\ \/ wip'[p] = wip[p]
                \/ wip'[p] \in Works => wstate[wip'[p]] \in NotStarted
  <2>1. CASE p = q
    BY <1>1, <2>1 DEF Enqueues, StartedByWorker, NotStarted
  <2>2. CASE p # q
    BY <1>1, <2>2 DEF Enqueues, StartedByWorker
  <2> QED
    BY <2>1, <2>2
<1>3. \A v \in Works : QueueOf[v] \in Queues
  BY ConstantsAssumption
<1> QED
  BY <1>2, <1>3 DEF Enqueues, StartedByWorker

LEMMA ShrinkStarted ==
    ASSUME \A p \in Queues : Shrinks(p), QueueTypes, StartedByWorker, wstate' = wstate,
           \A p \in Queues : pc[p] \in Running => cur'[p] = cur[p] /\ pc'[p] = pc[p],
           \A p \in Queues :
               wip'[p] = wip[p] /\ wip[p] \in Works /\ wstate[wip[p]] \notin NotStarted =>
                   cur'[p] = cur[p] /\ pc'[p] = pc[p] /\ ret'[p] = ret[p]
    PROVE  StartedByWorker'
<1>1. \A p \in Queues : Elems(queue[p]) \subseteq Works
  BY ElemsInWorks
<1>2. ASSUME NEW p \in Queues
      PROVE  /\ \A v \in Elems(queue'[p]) : wstate[v] \in NotStarted
             /\ \/ wip'[p] = wip[p]
                \/ wip'[p] \in Works => wstate[wip'[p]] \in NotStarted
  BY <1>1, ConstantsAssumption DEF Shrinks, StartedByWorker
<1>3. \A v \in Works : QueueOf[v] \in Queues
  BY ConstantsAssumption
<1> QED
  BY <1>2, <1>3 DEF StartedByWorker

LEMMA ScheduledNext == QueueInv /\ [Next]_vars => Scheduled'
<1> SUFFICES ASSUME TypeOK, HandlerHasWork, ThreadHasWork, PathStarted,
                    Scheduled, [Next]_vars
             PROVE  Scheduled'
  BY DEF QueueInv, AnswerInv, SignalInv, TypeInv
<1> USE ConstantsAssumption, MainIsThread DEF TypeOK, ThreadTypes, QueueTypes,
    WorkTypes, Scheduled, threadVars, queueVars, workVars
<1>1. ASSUME NEW w \in Works, Request(w) PROVE Scheduled'
  BY <1>1 DEF Request
<1>2. ASSUME NEW w \in Works, Fetch(w) PROVE Scheduled'
  BY <1>2 DEF Fetch
<1>3. ASSUME NEW w \in Works, Abort(w) PROVE Scheduled'
  BY <1>3 DEF Abort, PathStarted
<1>4. CASE AddWork
  BY <1>4, HandlerEnqueues, EnqueueScheduled
<1>5. CASE AddWorkToFullQueue
  BY <1>5 DEF AddWorkToFullQueue, Schedule, Full, HandlerHasWork,
     SetScheduled, SetScheduledOk
<1>6. CASE ReplaceWork
  BY <1>6, HandlerEnqueues, EnqueueScheduled
<1>7. CASE EatLookup
  BY <1>7 DEF EatLookup
<1>8. CASE EatUnknown
  BY <1>8 DEF EatUnknown, HandlerDone
<1>9. CASE StartWaiting
  BY <1>9 DEF StartWaiting, SetWaiting
<1>10. CASE WaitEnds
  BY <1>10 DEF WaitEnds
<1>11. CASE EatResult
  BY <1>11 DEF EatResult, HandlerDone, Deliver
<1>12. CASE LockAfterTimeout
  BY <1>12 DEF LockAfterTimeout
<1>13. CASE EatQuickly
  BY <1>13 DEF EatQuickly
<1>14. CASE EatLater
  BY <1>14 DEF EatLater, HandlerDone, SlowPathCookieSent,
     SlowPathCookieSentOk, TakeSlowPath
<1>15. CASE Collect
  BY <1>15 DEF Collect, HandlerDone, Deliver
<1>16. ASSUME NEW t \in Threads, CancelRunnable(t) PROVE Scheduled'
  BY <1>16 DEF CancelRunnable
<1>17. ASSUME NEW t \in Threads, Cancel(t) PROVE Scheduled'
  BY <1>17 DEF Cancel, Return
<1>18. ASSUME NEW t \in Threads, NotifyJar(t) PROVE Scheduled'
  BY <1>18 DEF NotifyJar
<1>19. ASSUME NEW t \in Threads, NotifyEaten(t) PROVE Scheduled'
  BY <1>19 DEF NotifyEaten, Return
<1>20. ASSUME NEW t \in Threads, NotifyBlocks(t) PROVE Scheduled'
  BY <1>20 DEF NotifyBlocks
<1>21. ASSUME NEW t \in Threads, NotifyWakesUp(t) PROVE Scheduled'
  BY <1>21 DEF NotifyWakesUp
<1>22. ASSUME NEW t \in Threads, NotifyClient(t) PROVE Scheduled'
  BY <1>22 DEF NotifyClient, Return, ThreadHasWork, TakeFastPath,
     SlowPathReadyNotified, SlowPathReadyNotifiedOk, Notifying
<1>23. ASSUME NEW t \in Threads, NEW q \in Queues, Purge(t, q) PROVE
     Scheduled'
  <2>1. \A p \in Queues : Shrinks(p) /\ Elems(queue[p]) \subseteq Works
    BY <1>23, WorkersShrink, ElemsInWorks
  <2>2. \A p \in Queues : \A w \in Elems(queue'[p]) : rp'[w] # "NONE"
    BY <1>23, <2>1 DEF Purge, Shrinks
  <2>3. obj'[t] \in Works => obj'[t] \in Elems(queue[q]) \cup {wip[q]}
    <3>1. queue[q] # <<>> => Head(queue[q]) \in Elems(queue[q])
      BY TailElems
    <3> QED
      BY <1>23, <3>1 DEF Purge
  <2> QED
    BY <1>23, <2>1, <2>2, <2>3 DEF Purge, Shrinks
<1>24. ASSUME NEW t \in Threads, NEW q \in Queues, Purged(t, q) PROVE
     Scheduled'
  BY <1>24 DEF Purged
<1>25. ASSUME NEW q \in Queues, TakeWork(q) PROVE Scheduled'
  BY <1>25 DEF TakeWork
<1>26. ASSUME NEW q \in Queues, SkipWork(q) PROVE Scheduled'
  BY <1>26, WorkersShrink, ElemsInWorks DEF SkipWork, Advance, Shrinks
<1>27. ASSUME NEW q \in Queues, RunBegins(q) PROVE Scheduled'
  BY <1>27 DEF RunBegins
<1>28. ASSUME NEW q \in Queues, NEW r \in Results, DoRun(q, r) PROVE
     Scheduled'
  BY <1>28 DEF DoRun
<1>29. ASSUME NEW q \in Queues, RunEnds(q) PROVE Scheduled'
  BY <1>29 DEF RunEnds, ThreadHasWork, Running
<1>30. ASSUME NEW q \in Queues, PopWork(q) PROVE Scheduled'
  BY <1>30, WorkersShrink, ElemsInWorks DEF PopWork, Shrinks
<1>31. ASSUME NEW q \in Queues, WorkerStops(q) PROVE Scheduled'
  BY <1>31 DEF WorkerStops
<1>32. CASE Quit
  BY <1>32 DEF Quit
<1>33. ASSUME NEW q \in Queues, Shutdown(q) PROVE Scheduled'
  BY <1>33 DEF Shutdown
<1>34. CASE Join
  BY <1>34 DEF Join
<1>35. CASE UNCHANGED vars
  BY <1>35 DEF vars
<1>36. ASSUME NEW t \in Threads, Subroutine(t) PROVE Scheduled'
  BY <1>16, <1>17, <1>18, <1>19, <1>20, <1>21, <1>22, <1>23, <1>24, <1>36 DEF
     Subroutine
<1>37. CASE Environment
  BY <1>1, <1>2, <1>3, <1>32, <1>37 DEF Environment
<1>38. CASE MainStep
  BY <1>4, <1>5, <1>6, <1>7, <1>8, <1>9, <1>10, <1>11, <1>12, <1>13, <1>14,
     <1>15, <1>33, <1>34, <1>36, <1>38 DEF MainStep
<1>39. ASSUME NEW q \in Queues, WorkerStep(q) PROVE Scheduled'
  BY <1>25, <1>26, <1>27, <1>28, <1>29, <1>30, <1>31, <1>36, <1>39 DEF
     WorkerStep
<1> QED
  BY <1>35, <1>37, <1>38, <1>39 DEF Next

LEMMA OnePlaceNext == QueueInv /\ [Next]_vars => OnePlace'
<1> SUFFICES ASSUME TypeOK, HandlerHasWork, ThreadHasWork, PathStarted,
                    OnePlace, NotElsewhere, [Next]_vars
             PROVE  OnePlace'
  BY DEF QueueInv, AnswerInv, SignalInv, TypeInv
<1> SUFFICES ASSUME NEW p \in Queues PROVE InPlace(p)'
  BY DEF OnePlace
<1> USE ConstantsAssumption, MainIsThread DEF TypeOK, ThreadTypes, QueueTypes,
    OnePlace, InPlace, threadVars, queueVars
<1>1. ASSUME NEW w \in Works, Request(w) PROVE InPlace(p)'
  BY <1>1 DEF Request
<1>2. ASSUME NEW w \in Works, Fetch(w) PROVE InPlace(p)'
  BY <1>2 DEF Fetch
<1>3. ASSUME NEW w \in Works, Abort(w) PROVE InPlace(p)'
  BY <1>3 DEF Abort
<1>4. CASE AddWork
  <2>1. Enqueues(cur[Main], QueueOf[cur[Main]])
    BY <1>4, HandlerEnqueues
  <2>2. qlock'[p] \in {qlock[p], NoThread} /\ NotQueuedYet
    BY <1>4 DEF AddWork, NotQueuedYet, HandlerBusy, Eating
  <2>3. /\ QueueOf[cur[Main]] \in Queues
        /\ cur[Main] # wip[QueueOf[cur[Main]]] /\ cur[Main] # cur[QueueOf[cur[Main]]]
        /\ cur[Main] \notin Elems(queue[QueueOf[cur[Main]]])
    BY <2>1, <2>2 DEF NotElsewhere, Enqueues
  <2>4. QueueTypes /\ OnePlace
    OBVIOUS
  <2> HIDE DEF QueueTypes, OnePlace, InPlace
  <2> QED
    BY <2>1, <2>2, <2>3, <2>4, EnqueueInPlace
<1>5. CASE AddWorkToFullQueue
  BY <1>5 DEF AddWorkToFullQueue, Schedule, Full
<1>6. CASE ReplaceWork
  <2>1. Enqueues(cur[Main], QueueOf[cur[Main]])
    BY <1>6, HandlerEnqueues
  <2>2. qlock'[p] \in {qlock[p], NoThread} /\ NotQueuedYet
    BY <1>6 DEF ReplaceWork, NotQueuedYet, HandlerBusy, Eating
  <2>3. /\ QueueOf[cur[Main]] \in Queues
        /\ cur[Main] # wip[QueueOf[cur[Main]]] /\ cur[Main] # cur[QueueOf[cur[Main]]]
        /\ cur[Main] \notin Elems(queue[QueueOf[cur[Main]]])
    BY <2>1, <2>2 DEF NotElsewhere, Enqueues
  <2>4. QueueTypes /\ OnePlace
    OBVIOUS
  <2> HIDE DEF QueueTypes, OnePlace, InPlace
  <2> QED
    BY <2>1, <2>2, <2>3, <2>4, EnqueueInPlace
<1>7. CASE EatLookup
  BY <1>7 DEF EatLookup
<1>8. CASE EatUnknown
  BY <1>8 DEF EatUnknown, HandlerDone
<1>9. CASE StartWaiting
  BY <1>9 DEF StartWaiting
<1>10. CASE WaitEnds
  BY <1>10 DEF WaitEnds
<1>11. CASE EatResult
  BY <1>11 DEF EatResult, HandlerDone, Deliver
<1>12. CASE LockAfterTimeout
  BY <1>12 DEF LockAfterTimeout
<1>13. CASE EatQuickly
  BY <1>13 DEF EatQuickly
<1>14. CASE EatLater
  BY <1>14 DEF EatLater, HandlerDone
<1>15. CASE Collect
  BY <1>15 DEF Collect, HandlerDone, Deliver
<1>16. ASSUME NEW t \in Threads, CancelRunnable(t) PROVE InPlace(p)'
  BY <1>16 DEF CancelRunnable
<1>17. ASSUME NEW t \in Threads, Cancel(t) PROVE InPlace(p)'
  BY <1>17 DEF Cancel, Return
<1>18. ASSUME NEW t \in Threads, NotifyJar(t) PROVE InPlace(p)'
  BY <1>18 DEF NotifyJar
<1>19. ASSUME NEW t \in Threads, NotifyEaten(t) PROVE InPlace(p)'
  BY <1>19 DEF NotifyEaten, Return
<1>20. ASSUME NEW t \in Threads, NotifyBlocks(t) PROVE InPlace(p)'
  BY <1>20 DEF NotifyBlocks
<1>21. ASSUME NEW t \in Threads, NotifyWakesUp(t) PROVE InPlace(p)'
  BY <1>21 DEF NotifyWakesUp
<1>22. ASSUME NEW t \in Threads, NotifyClient(t) PROVE InPlace(p)'
  BY <1>22 DEF NotifyClient, Return
<1>23. ASSUME NEW t \in Threads, NEW q \in Queues, Purge(t, q) PROVE
     InPlace(p)'
  <2>1. \A o \in Queues : Shrinks(o) /\ Elems(queue[o]) \subseteq Works
    BY <1>23, WorkersShrink, ElemsInWorks
  <2>2. obj'[t] \in Elems(queue[q]) \cup {wip[q]} /\ \A u \in Threads \ {t} : obj'[u] = obj[u]
    <3>1. queue[q] # <<>> => Head(queue[q]) \in Elems(queue[q])
      BY TailElems
    <3> QED
      BY <1>23, <3>1 DEF Purge
  <2>3. cur' = cur /\ qlock' = qlock /\ qlock[q] = t
    BY <1>23 DEF Purge
  <2>4. obj'[p] \in Works => QueueOf[obj'[p]] = p
    <3>1. CASE t = p
      <4>1. qlock[q] \in {q, Main, NoThread} /\ p # Main /\ p # NoThread
        OBVIOUS
      <4>2. q = p
        BY <2>3, <3>1, <4>1
      <4> QED
        BY <2>1, <2>2, <3>1, <4>2
    <3>2. CASE t # p
      BY <2>2, <3>2
    <3> QED
      BY <3>1, <3>2
  <2> QED
    BY <2>1, <2>3, <2>4, ShrinkInPlace
<1>24. ASSUME NEW t \in Threads, NEW q \in Queues, Purged(t, q) PROVE
     InPlace(p)'
  BY <1>24 DEF Purged
<1>25. ASSUME NEW q \in Queues, TakeWork(q) PROVE InPlace(p)'
  BY <1>25 DEF TakeWork
<1>26. ASSUME NEW q \in Queues, SkipWork(q) PROVE InPlace(p)'
  BY <1>26, WorkersShrink, ShrinkInPlace DEF SkipWork
<1>27. ASSUME NEW q \in Queues, RunBegins(q) PROVE InPlace(p)'
  BY <1>27 DEF RunBegins
<1>28. ASSUME NEW q \in Queues, NEW r \in Results, DoRun(q, r) PROVE
     InPlace(p)'
  BY <1>28 DEF DoRun
<1>29. ASSUME NEW q \in Queues, RunEnds(q) PROVE InPlace(p)'
  BY <1>29 DEF RunEnds, ThreadHasWork, Running
<1>30. ASSUME NEW q \in Queues, PopWork(q) PROVE InPlace(p)'
  <2>1. Shrinks(p)
    BY <1>30, WorkersShrink
  <2>2. obj' = obj /\ qlock' = qlock /\ cur'[p] \in {cur[p], NoWork}
    BY <1>30 DEF PopWork
  <2>3. QueueTypes /\ OnePlace /\ (obj'[p] \in Works => QueueOf[obj'[p]] = p)
    BY <2>2
  <2> HIDE DEF QueueTypes, OnePlace, InPlace
  <2> QED
    BY <2>1, <2>2, <2>3, ShrinkInPlace
<1>31. ASSUME NEW q \in Queues, WorkerStops(q) PROVE InPlace(p)'
  BY <1>31 DEF WorkerStops
<1>32. CASE Quit
  BY <1>32 DEF Quit
<1>33. ASSUME NEW q \in Queues, Shutdown(q) PROVE InPlace(p)'
  BY <1>33 DEF Shutdown
<1>34. CASE Join
  BY <1>34 DEF Join
<1>35. CASE UNCHANGED vars
  BY <1>35 DEF vars
<1>36. ASSUME NEW t \in Threads, Subroutine(t) PROVE InPlace(p)'
  BY <1>16, <1>17, <1>18, <1>19, <1>20, <1>21, <1>22, <1>23, <1>24, <1>36 DEF
     Subroutine
<1>37. CASE Environment
  BY <1>1, <1>2, <1>3, <1>32, <1>37 DEF Environment
<1>38. CASE MainStep
  BY <1>4, <1>5, <1>6, <1>7, <1>8, <1>9, <1>10, <1>11, <1>12, <1>13, <1>14,
     <1>15, <1>33, <1>34, <1>36, <1>38 DEF MainStep
<1>39. ASSUME NEW q \in Queues, WorkerStep(q) PROVE InPlace(p)'
  BY <1>25, <1>26, <1>27, <1>28, <1>29, <1>30, <1>31, <1>36, <1>39 DEF
     WorkerStep
<1> QED
  BY <1>35, <1>37, <1>38, <1>39 DEF Next

LEMMA NotElsewhereNext == QueueInv /\ [Next]_vars => NotElsewhere'
<1> SUFFICES ASSUME TypeOK, HandlerHasWork, ThreadHasWork, PathStarted,
                    Scheduled, OnePlace, NotElsewhere, [Next]_vars
             PROVE  NotElsewhere'
  BY DEF QueueInv, AnswerInv, SignalInv, TypeInv
<1> USE ConstantsAssumption, MainIsThread DEF TypeOK, ThreadTypes, QueueTypes,
    WorkTypes, NotElsewhere, HandlerHasWork, NotQueuedYet, HandlerBusy,
    Eating, Notifying, threadVars, queueVars, workVars
<1>1. ASSUME NEW w \in Works, Request(w) PROVE NotElsewhere'
  BY <1>1 DEF Request, PathStarted, Scheduled
<1>2. ASSUME NEW w \in Works, Fetch(w) PROVE NotElsewhere'
  BY <1>2 DEF Fetch
<1>3. ASSUME NEW w \in Works, Abort(w) PROVE NotElsewhere'
  BY <1>3 DEF Abort
<1>4. CASE AddWork
  BY <1>4, HandlerEnqueues DEF Enqueues, NotQueuedYet, HandlerBusy, Eating,
     Notifying
<1>5. CASE AddWorkToFullQueue
  BY <1>5 DEF AddWorkToFullQueue, Schedule, Full, HandlerHasWork
<1>6. CASE ReplaceWork
  BY <1>6, HandlerEnqueues DEF Enqueues, NotQueuedYet, HandlerBusy, Eating,
     Notifying
<1>7. CASE EatLookup
  BY <1>7 DEF EatLookup
<1>8. CASE EatUnknown
  BY <1>8 DEF EatUnknown, HandlerDone
<1>9. CASE StartWaiting
  BY <1>9 DEF StartWaiting
<1>10. CASE WaitEnds
  BY <1>10 DEF WaitEnds
<1>11. CASE EatResult
  BY <1>11 DEF EatResult, HandlerDone, Deliver
<1>12. CASE LockAfterTimeout
  BY <1>12 DEF LockAfterTimeout
<1>13. CASE EatQuickly
  BY <1>13 DEF EatQuickly
<1>14. CASE EatLater
  BY <1>14 DEF EatLater, HandlerDone
<1>15. CASE Collect
  BY <1>15 DEF Collect, HandlerDone, Deliver
<1>16. ASSUME NEW t \in Threads, CancelRunnable(t) PROVE NotElsewhere'
  BY <1>16 DEF CancelRunnable, ThreadHasWork
<1>17. ASSUME NEW t \in Threads, Cancel(t) PROVE NotElsewhere'
  <2>1. (NotQueuedYet' <=> NotQueuedYet) /\ \A u \in Threads : obj'[u] \in {obj[u], NoWork}
    BY <1>17, ReturnToHandler DEF Cancel, Notifying
  <2>2. cur' = cur /\ wip' = wip /\ queue' = queue
    BY <1>17 DEF Cancel
  <2> QED
    BY <1>17, <2>1, <2>2 DEF CancelAtOnce, Cancel
<1>18. ASSUME NEW t \in Threads, NotifyJar(t) PROVE NotElsewhere'
  BY <1>18 DEF NotifyJar
<1>19. ASSUME NEW t \in Threads, NotifyEaten(t) PROVE NotElsewhere'
  <2>1. (NotQueuedYet' <=> NotQueuedYet) /\ \A u \in Threads : obj'[u] \in {obj[u], NoWork}
    BY <1>19, ReturnToHandler DEF NotifyEaten, Notifying
  <2>2. cur' = cur /\ wip' = wip /\ queue' = queue
    BY <1>19 DEF NotifyEaten
  <2> QED
    BY <1>19, <2>1, <2>2 DEF NotifyEaten
<1>20. ASSUME NEW t \in Threads, NotifyBlocks(t) PROVE NotElsewhere'
  BY <1>20 DEF NotifyBlocks
<1>21. ASSUME NEW t \in Threads, NotifyWakesUp(t) PROVE NotElsewhere'
  BY <1>21 DEF NotifyWakesUp
<1>22. ASSUME NEW t \in Threads, NotifyClient(t) PROVE NotElsewhere'
  <2>1. (NotQueuedYet' <=> NotQueuedYet) /\ \A u \in Threads : obj'[u] \in {obj[u], NoWork}
    BY <1>22, ReturnToHandler DEF NotifyClient, Notifying
  <2>2. cur' = cur /\ wip' = wip /\ queue' = queue
    BY <1>22 DEF NotifyClient
  <2> QED
    BY <1>22, <2>1, <2>2 DEF NotifyClient
<1>23. ASSUME NEW t \in Threads, NEW q \in Queues, Purge(t, q) PROVE
     NotElsewhere'
  <2>1. \A o \in Queues : Shrinks(o) /\ Elems(queue[o]) \subseteq Works
    BY <1>23, WorkersShrink, ElemsInWorks
  <2>2. obj'[t] \in Elems(queue[q]) \cup {wip[q]} /\ \A u \in Threads \ {t} : obj'[u] = obj[u]
    <3>1. queue[q] # <<>> => Head(queue[q]) \in Elems(queue[q])
      BY TailElems
    <3> QED
      BY <1>23, <3>1 DEF Purge
  <2>3. cur' = cur /\ qlock' = qlock /\ qlock[q] = t
    BY <1>23 DEF Purge
  <2>4. NotQueuedYet' => NotQueuedYet /\ t # Main /\ wstate' = wstate
    BY <1>23 DEF Purge, workVars, NotQueuedYet, HandlerBusy, Eating, Notifying
  <2>5. \A u \in Threads : \/ obj'[u] = obj[u]
                          \/ \E p \in Queues : obj'[u] \in Elems(queue[p]) \cup {wip[p]}
    BY <2>2
  <2> QED
    BY <2>1, <2>3, <2>4, <2>5, ShrinkNotElsewhere
<1>24. ASSUME NEW t \in Threads, NEW q \in Queues, Purged(t, q) PROVE
     NotElsewhere'
  BY <1>24 DEF Purged
<1>25. ASSUME NEW q \in Queues, TakeWork(q) PROVE NotElsewhere'
  BY <1>25 DEF TakeWork
<1>26. ASSUME NEW q \in Queues, SkipWork(q) PROVE NotElsewhere'
  <2>1. (NotQueuedYet' => NotQueuedYet) /\ wstate' = wstate /\ obj' = obj /\ cur'[Main] = cur[Main]
    BY <1>26 DEF SkipWork
  <2>2. \A p \in Queues : Shrinks(p) /\ cur'[p] \in {cur[p], NoWork}
    BY <1>26, WorkersShrink DEF SkipWork
  <2> QED
    BY <2>1, <2>2, ShrinkNotElsewhere
<1>27. ASSUME NEW q \in Queues, RunBegins(q) PROVE NotElsewhere'
  BY <1>27 DEF RunBegins, ThreadHasWork
<1>28. ASSUME NEW q \in Queues, NEW r \in Results, DoRun(q, r) PROVE
     NotElsewhere'
  BY <1>28 DEF DoRun
<1>29. ASSUME NEW q \in Queues, RunEnds(q) PROVE NotElsewhere'
  BY <1>29 DEF RunEnds, ThreadHasWork, Running
<1>30. ASSUME NEW q \in Queues, PopWork(q) PROVE NotElsewhere'
  <2>1. (NotQueuedYet' => NotQueuedYet) /\ wstate' = wstate /\ obj' = obj /\ cur'[Main] = cur[Main]
    BY <1>30 DEF PopWork
  <2>2. \A p \in Queues : Shrinks(p) /\ cur'[p] \in {cur[p], NoWork}
    BY <1>30, WorkersShrink DEF PopWork
  <2> QED
    BY <2>1, <2>2, ShrinkNotElsewhere
<1>31. ASSUME NEW q \in Queues, WorkerStops(q) PROVE NotElsewhere'
  BY <1>31 DEF WorkerStops
<1>32. CASE Quit
  BY <1>32 DEF Quit
<1>33. ASSUME NEW q \in Queues, Shutdown(q) PROVE NotElsewhere'
  BY <1>33 DEF Shutdown
<1>34. CASE Join
  BY <1>34 DEF Join
<1>35. CASE UNCHANGED vars
  BY <1>35 DEF vars
<1>36. ASSUME NEW t \in Threads, Subroutine(t) PROVE NotElsewhere'
  BY <1>16, <1>17, <1>18, <1>19, <1>20, <1>21, <1>22, <1>23, <1>24, <1>36 DEF
     Subroutine
<1>37. CASE Environment
  BY <1>1, <1>2, <1>3, <1>32, <1>37 DEF Environment
<1>38. CASE MainStep
  BY <1>4, <1>5, <1>6, <1>7, <1>8, <1>9, <1>10, <1>11, <1>12, <1>13, <1>14,
     <1>15, <1>33, <1>34, <1>36, <1>38 DEF MainStep
<1>39. ASSUME NEW q \in Queues, WorkerStep(q) PROVE NotElsewhere'
  BY <1>25, <1>26, <1>27, <1>28, <1>29, <1>30, <1>31, <1>36, <1>39 DEF
     WorkerStep
<1> QED
  BY <1>35, <1>37, <1>38, <1>39 DEF Next

LEMMA StartedNext == QueueInv /\ [Next]_vars => StartedByWorker'
<1> SUFFICES ASSUME TypeOK, HandlerHasWork, ThreadHasWork, OneNotifier,
                    PathStarted, Scheduled, OnePlace, NotElsewhere,
                    StartedByWorker, [Next]_vars
             PROVE  StartedByWorker'
  BY DEF QueueInv, AnswerInv, SignalInv, TypeInv
<1> USE ConstantsAssumption, MainIsThread DEF TypeOK, ThreadTypes, QueueTypes,
    WorkTypes, StartedByWorker, NotStarted, Notifying, Running, threadVars,
    queueVars, workVars
<1>1. ASSUME NEW w \in Works, Request(w) PROVE StartedByWorker'
  BY <1>1 DEF Request
<1>2. ASSUME NEW w \in Works, Fetch(w) PROVE StartedByWorker'
  BY <1>2 DEF Fetch
<1>3. ASSUME NEW w \in Works, Abort(w) PROVE StartedByWorker'
  BY <1>3 DEF Abort
<1>4. CASE AddWork
  <2>1. Enqueues(cur[Main], QueueOf[cur[Main]])
    BY <1>4, HandlerEnqueues
  <2>2. NotQueuedYet
    BY <1>4 DEF AddWork, NotQueuedYet, HandlerBusy, Eating
  <2>3. wstate[cur[Main]] = "RUNNABLE"
    BY <2>2 DEF NotElsewhere
  <2>4. QueueTypes
    OBVIOUS
  <2> HIDE DEF QueueTypes, TypeOK, ThreadTypes, WorkTypes, StartedByWorker
  <2> QED
    BY <2>1, <2>3, <2>4, EnqueueStarted
<1>5. CASE AddWorkToFullQueue
  BY <1>5 DEF AddWorkToFullQueue, Schedule, Full
<1>6. CASE ReplaceWork
  <2>1. Enqueues(cur[Main], QueueOf[cur[Main]])
    BY <1>6, HandlerEnqueues
  <2>2. NotQueuedYet
    BY <1>6 DEF ReplaceWork, NotQueuedYet, HandlerBusy, Eating
  <2>3. wstate[cur[Main]] = "RUNNABLE"
    BY <2>2 DEF NotElsewhere
  <2>4. QueueTypes
    OBVIOUS
  <2> HIDE DEF QueueTypes, TypeOK, ThreadTypes, WorkTypes, StartedByWorker
  <2> QED
    BY <2>1, <2>3, <2>4, EnqueueStarted
<1>7. CASE EatLookup
  BY <1>7 DEF EatLookup
<1>8. CASE EatUnknown
  BY <1>8 DEF EatUnknown, HandlerDone
<1>9. CASE StartWaiting
  BY <1>9 DEF StartWaiting
<1>10. CASE WaitEnds
  BY <1>10 DEF WaitEnds
<1>11. CASE EatResult
  BY <1>11 DEF EatResult, HandlerDone, Deliver
<1>12. CASE LockAfterTimeout
  BY <1>12 DEF LockAfterTimeout
<1>13. CASE EatQuickly
  BY <1>13 DEF EatQuickly
<1>14. CASE EatLater
  BY <1>14 DEF EatLater, HandlerDone
<1>15. CASE Collect
  BY <1>15 DEF Collect, HandlerDone, Deliver
<1>16. ASSUME NEW t \in Threads, CancelRunnable(t) PROVE StartedByWorker'
  BY <1>16 DEF CancelRunnable, CancelAtOnce, ThreadHasWork
<1>17. ASSUME NEW t \in Threads, Cancel(t) PROVE StartedByWorker'
  BY <1>17, ElemsInWorks DEF Cancel, Return, CancelAtOnce, ThreadHasWork
<1>18. ASSUME NEW t \in Threads, NotifyJar(t) PROVE StartedByWorker'
  BY <1>18 DEF NotifyJar
<1>19. ASSUME NEW t \in Threads, NotifyEaten(t) PROVE StartedByWorker'
  BY <1>19 DEF NotifyEaten, Return
<1>20. ASSUME NEW t \in Threads, NotifyBlocks(t) PROVE StartedByWorker'
  BY <1>20 DEF NotifyBlocks
<1>21. ASSUME NEW t \in Threads, NotifyWakesUp(t) PROVE StartedByWorker'
  BY <1>21 DEF NotifyWakesUp
<1>22. ASSUME NEW t \in Threads, NotifyClient(t) PROVE StartedByWorker'
  BY <1>22 DEF NotifyClient, Return
<1>23. ASSUME NEW t \in Threads, NEW q \in Queues, Purge(t, q) PROVE
     StartedByWorker'
  <2>1. \A p \in Queues : Shrinks(p)
    BY <1>23, WorkersShrink
  <2>2. wstate' = wstate /\ \A p \in Queues : pc[p] \in Running => cur'[p] = cur[p] /\ pc'[p] = pc[p]
    BY <1>23 DEF Purge
  <2>3. ASSUME NEW p \in Queues, wip'[p] = wip[p], wip[p] \in Works, wstate[wip[p]] \notin NotStarted
        PROVE  cur'[p] = cur[p] /\ pc'[p] = pc[p] /\ ret'[p] = ret[p]
    <3>1. p # t
      BY <1>23, <2>3 DEF Purge
    <3> QED
      BY <1>23, <3>1 DEF Purge
  <2>4. QueueTypes
    OBVIOUS
  <2> HIDE DEF QueueTypes, TypeOK, ThreadTypes, WorkTypes, StartedByWorker
  <2> QED
    BY <2>1, <2>2, <2>3, <2>4, ShrinkStarted
<1>24. ASSUME NEW t \in Threads, NEW q \in Queues, Purged(t, q) PROVE
     StartedByWorker'
  BY <1>24 DEF Purged
<1>25. ASSUME NEW q \in Queues, TakeWork(q) PROVE StartedByWorker'
  BY <1>25 DEF TakeWork
<1>26. ASSUME NEW q \in Queues, SkipWork(q) PROVE StartedByWorker'
  <2>1. \A p \in Queues : Shrinks(p)
    BY <1>26, WorkersShrink
  <2>2. wstate' = wstate /\ \A p \in Queues : pc[p] \in Running => cur'[p] = cur[p] /\ pc'[p] = pc[p]
    BY <1>26 DEF SkipWork
  <2>3. ASSUME NEW p \in Queues, wip'[p] = wip[p], wip[p] \in Works, wstate[wip[p]] \notin NotStarted
        PROVE  cur'[p] = cur[p] /\ pc'[p] = pc[p] /\ ret'[p] = ret[p]
    BY <1>26, <2>3 DEF SkipWork
  <2>4. QueueTypes
    OBVIOUS
  <2> HIDE DEF QueueTypes, TypeOK, ThreadTypes, WorkTypes, StartedByWorker
  <2> QED
    BY <2>1, <2>2, <2>3, <2>4, ShrinkStarted
<1>27. ASSUME NEW q \in Queues, RunBegins(q) PROVE StartedByWorker'
  BY <1>27, ElemsInWorks DEF RunBegins, OnePlace, InPlace, ThreadHasWork
<1>28. ASSUME NEW q \in Queues, NEW r \in Results, DoRun(q, r) PROVE
     StartedByWorker'
  BY <1>28 DEF DoRun
<1>29. ASSUME NEW q \in Queues, RunEnds(q) PROVE StartedByWorker'
  BY <1>29, ElemsInWorks DEF RunEnds, OnePlace, InPlace, ThreadHasWork,
     OneNotifier
<1>30. ASSUME NEW q \in Queues, PopWork(q) PROVE StartedByWorker'
  <2>1. \A p \in Queues : Shrinks(p)
    BY <1>30, WorkersShrink
  <2>2. wstate' = wstate /\ \A p \in Queues : pc[p] \in Running => cur'[p] = cur[p] /\ pc'[p] = pc[p]
    BY <1>30 DEF PopWork
  <2>3. ASSUME NEW p \in Queues, wip'[p] = wip[p], wip[p] \in Works, wstate[wip[p]] \notin NotStarted
        PROVE  cur'[p] = cur[p] /\ pc'[p] = pc[p] /\ ret'[p] = ret[p]
    <3>1. queue[q] # <<>> => Head(queue[q]) \in Elems(queue[q])
      BY TailElems
    <3>2. p # q
      BY <1>30, <2>3, <3>1 DEF PopWork, OnePlace, InPlace
    <3> QED
      BY <1>30, <3>2 DEF PopWork
  <2>4. QueueTypes
    OBVIOUS
  <2> HIDE DEF QueueTypes, TypeOK, ThreadTypes, WorkTypes, StartedByWorker
  <2> QED
    BY <2>1, <2>2, <2>3, <2>4, ShrinkStarted
<1>31. ASSUME NEW q \in Queues, WorkerStops(q) PROVE StartedByWorker'
  BY <1>31 DEF WorkerStops
<1>32. CASE Quit
  BY <1>32 DEF Quit
<1>33. ASSUME NEW q \in Queues, Shutdown(q) PROVE StartedByWorker'
  BY <1>33 DEF Shutdown
<1>34. CASE Join
  BY <1>34 DEF Join
<1>35. CASE UNCHANGED vars
  BY <1>35 DEF vars
<1>36. ASSUME NEW t \in Threads, Subroutine(t) PROVE StartedByWorker'
  BY <1>16, <1>17, <1>18, <1>19, <1>20, <1>21, <1>22, <1>23, <1>24, <1>36 DEF
     Subroutine
<1>37. CASE Environment
  BY <1>1, <1>2, <1>3, <1>32, <1>37 DEF Environment
<1>38. CASE MainStep
  BY <1>4, <1>5, <1>6, <1>7, <1>8, <1>9, <1>10, <1>11, <1>12, <1>13, <1>14,
     <1>15, <1>33, <1>34, <1>36, <1>38 DEF MainStep
<1>39. ASSUME NEW q \in Queues, WorkerStep(q) PROVE StartedByWorker'
  BY <1>25, <1>26, <1>27, <1>28, <1>29, <1>30, <1>31, <1>36, <1>39 DEF
     WorkerStep
<1> QED
  BY <1>35, <1>37, <1>38, <1>39 DEF Next


LEMMA QueueInvInit == Init => QueueInv
<1> SUFFICES ASSUME Init PROVE QueueInv
  OBVIOUS
<1>1. Elems(<<>>) = {} /\ NoDup(<<>>)
  BY DEF Elems, NoDup
<1>2. AnswerInv
  BY AnswerInit
<1>3. PathStarted /\ Scheduled
  BY <1>1, MainIsThread, ConstantsAssumption
  DEF Init, PathStarted, Scheduled, HandlerBusy, Eating, Notifying
<1>4. OnePlace
  BY <1>1, MainIsThread, ConstantsAssumption DEF Init, OnePlace, InPlace
<1>5. NotElsewhere
  BY MainIsThread DEF Init, NotElsewhere, NotQueuedYet, HandlerBusy, Eating, Notifying
<1>6. StartedByWorker
  BY <1>1, MainIsThread, ConstantsAssumption DEF Init, StartedByWorker, NotStarted
<1> QED
  BY <1>2, <1>3, <1>4, <1>5, <1>6 DEF QueueInv

LEMMA QueueInvNext == QueueInv /\ [Next]_vars => QueueInv'
<1>1. QueueInv /\ [Next]_vars => AnswerInv'
  BY AnswerNext DEF QueueInv
<1> QED
  BY <1>1, PathStartedNext, ScheduledNext, OnePlaceNext, NotElsewhereNext, StartedNext
  DEF QueueInv
-----------------------------------------------------------------------------

LEMMA PathKnownNext == ~EarlyFetch /\ TrackerInv /\ [Next]_vars => PathKnown'
<1> SUFFICES ASSUME ~EarlyFetch, TypeOK, HandlerHasWork, ThreadHasWork,
                    OneCallServed, JarInv, PathStarted, Scheduled, PathInv,
                    CookieBeforeSignal, PathKnown, DoneHasResult, [Next]_vars
             PROVE  PathKnown'
  BY DEF TrackerInv, QueueInv, CookieInv, AnswerInv, SignalInv, TypeInv
<1> USE ConstantsAssumption, MainIsThread DEF TypeOK, ThreadTypes, WorkTypes,
    ClientTypes, HandlerHasWork, OneCallServed, PathKnown, NotQueuedYet,
    HandlerBusy, Eating, Notifying, threadVars, workVars, clientVars
<1>1. ASSUME NEW w \in Works, Request(w) PROVE PathKnown'
  BY <1>1 DEF Request
<1>2. ASSUME NEW w \in Works, Fetch(w) PROVE PathKnown'
  BY <1>2 DEF Fetch
<1>3. ASSUME NEW w \in Works, Abort(w) PROVE PathKnown'
  BY <1>3 DEF Abort
<1>4. CASE AddWork
  BY <1>4 DEF AddWork, Schedule, Enqueue, Accepted, PathStarted, Modes,
     SetScheduled, SetScheduledOk
<1>5. CASE AddWorkToFullQueue
  BY <1>5 DEF AddWorkToFullQueue, Schedule, Full, PathStarted, SetScheduled,
     SetScheduledOk
<1>6. CASE ReplaceWork
  BY <1>6 DEF ReplaceWork, Enqueue, Accepted, Modes
<1>7. CASE EatLookup
  BY <1>7 DEF EatLookup
<1>8. CASE EatUnknown
  BY <1>8 DEF EatUnknown, HandlerDone, Fetching
<1>9. CASE StartWaiting
  BY <1>9 DEF StartWaiting, PathInv, SetWaiting
<1>10. CASE WaitEnds
  BY <1>10 DEF WaitEnds, JarInv, DoneHasResult
<1>11. CASE EatResult
  BY <1>11 DEF EatResult, HandlerDone, Deliver, Fetching, CookieBeforeSignal
<1>12. CASE LockAfterTimeout
  BY <1>12 DEF LockAfterTimeout
<1>13. CASE EatQuickly
  BY <1>13 DEF EatQuickly
<1>14. CASE EatLater
  BY <1>14 DEF EatLater, HandlerDone, SlowPathCookieSent,
     SlowPathCookieSentOk, TakeSlowPath, SlowPathResult, AlreadyTaken,
     ReplyPaths
<1>15. CASE Collect
  BY <1>15 DEF Collect, HandlerDone, Deliver, Fetching
<1>16. ASSUME NEW t \in Threads, CancelRunnable(t) PROVE PathKnown'
  BY <1>16 DEF CancelRunnable
<1>17. ASSUME NEW t \in Threads, Cancel(t) PROVE PathKnown'
  BY <1>17, ReturnToHandler DEF Cancel, Return
<1>18. ASSUME NEW t \in Threads, NotifyJar(t) PROVE PathKnown'
  BY <1>18 DEF NotifyJar
<1>19. ASSUME NEW t \in Threads, NotifyEaten(t) PROVE PathKnown'
  BY <1>19, ReturnToHandler DEF NotifyEaten, Return
<1>20. ASSUME NEW t \in Threads, NotifyBlocks(t) PROVE PathKnown'
  BY <1>20 DEF NotifyBlocks
<1>21. ASSUME NEW t \in Threads, NotifyWakesUp(t) PROVE PathKnown'
  BY <1>21 DEF NotifyWakesUp
<1>22. ASSUME NEW t \in Threads, NotifyClient(t) PROVE PathKnown'
  <2>1. obj[t] \in Works /\ rp[obj[t]] # "NONE" /\ pc[t] \in Notifying \cup {"cancel"}
    BY <1>22 DEF NotifyClient, ThreadHasWork, Scheduled
  <2>2. /\ \A v \in Works : v # obj[t] => rp'[v] = rp[v] /\ avail'[v] = avail[v]
        /\ rp[obj[t]] = "WAITING" => rp'[obj[t]] = "FAST_PATH"
        /\ rp[obj[t]] = "SLOW_PATH_COOKIE_SENT" =>
               rp'[obj[t]] \in {"SLOW_PATH_COOKIE_SENT", "SLOW_PATH_READY_NOTIFIED"}
        /\ rp[obj[t]] \notin {"WAITING", "SLOW_PATH_COOKIE_SENT"} => rp'[obj[t]] = rp[obj[t]]
        /\ avail'[obj[t]] \in {avail[obj[t]], avail[obj[t]] + 1}
        /\ avail'[obj[t]] # avail[obj[t]] => rp'[obj[t]] = "SLOW_PATH_READY_NOTIFIED"
        /\ rp[obj[t]] # "SCHEDULED"
    BY <1>22, <2>1 DEF NotifyClient, TakeFastPath, SlowPathReadyNotified, SlowPathReadyNotifiedOk, FastPathResult, FastPathMustWait, AlreadyTaken, Success, ReplyPaths
  <2>3. cur' = cur /\ reply' = reply /\ got' = got
    BY <1>22 DEF NotifyClient
  <2>4. /\ NotQueuedYet' <=> NotQueuedYet
        /\ pc'[Main] # pc[Main] => pc[Main] \notin Eating /\ pc'[Main] \notin Eating
        /\ pc'[Main] = "add" <=> pc[Main] = "add"
    <3>1. Return(t) /\ ret' = ret
      BY <1>22 DEF NotifyClient
    <3>2. (NotQueuedYet' <=> NotQueuedYet) /\ (pc'[Main] = "add" <=> pc[Main] = "add")
      BY <2>1, <2>3, <3>1, ReturnToHandler
    <3>3. pc'[Main] # pc[Main] => pc[Main] \notin Eating /\ pc'[Main] \notin Eating
      BY <2>1, <3>1 DEF Return
    <3> QED
      BY <3>2, <3>3
  <2> HIDE DEF NotQueuedYet
  <2>5. CASE obj[t] = cur[Main]
    BY <2>1, <2>2, <2>3, <2>4, <2>5
  <2>6. CASE obj[t] # cur[Main]
    BY <2>1, <2>2, <2>3, <2>4, <2>6 DEF NotQueuedYet
  <2> QED
    BY <2>5, <2>6
<1>23. ASSUME NEW t \in Threads, NEW q \in Queues, Purge(t, q) PROVE
     PathKnown'
  BY <1>23 DEF Purge
<1>24. ASSUME NEW t \in Threads, NEW q \in Queues, Purged(t, q) PROVE
     PathKnown'
  BY <1>24 DEF Purged
<1>25. ASSUME NEW q \in Queues, TakeWork(q) PROVE PathKnown'
  BY <1>25 DEF TakeWork
<1>26. ASSUME NEW q \in Queues, SkipWork(q) PROVE PathKnown'
  BY <1>26 DEF SkipWork, Advance
<1>27. ASSUME NEW q \in Queues, RunBegins(q) PROVE PathKnown'
  BY <1>27 DEF RunBegins
<1>28. ASSUME NEW q \in Queues, NEW r \in Results, DoRun(q, r) PROVE
     PathKnown'
  BY <1>28 DEF DoRun
<1>29. ASSUME NEW q \in Queues, RunEnds(q) PROVE PathKnown'
  BY <1>29 DEF RunEnds
<1>30. ASSUME NEW q \in Queues, PopWork(q) PROVE PathKnown'
  BY <1>30 DEF PopWork
<1>31. ASSUME NEW q \in Queues, WorkerStops(q) PROVE PathKnown'
  BY <1>31 DEF WorkerStops
<1>32. CASE Quit
  BY <1>32 DEF Quit
<1>33. ASSUME NEW q \in Queues, Shutdown(q) PROVE PathKnown'
  BY <1>33 DEF Shutdown
<1>34. CASE Join
  BY <1>34 DEF Join
<1>35. CASE UNCHANGED vars
  BY <1>35 DEF vars
<1>36. ASSUME NEW t \in Threads, Subroutine(t) PROVE PathKnown'
  BY <1>16, <1>17, <1>18, <1>19, <1>20, <1>21, <1>22, <1>23, <1>24, <1>36 DEF
     Subroutine
<1>37. CASE Environment
  BY <1>1, <1>2, <1>3, <1>32, <1>37 DEF Environment
<1>38. CASE MainStep
  BY <1>4, <1>5, <1>6, <1>7, <1>8, <1>9, <1>10, <1>11, <1>12, <1>13, <1>14,
     <1>15, <1>33, <1>34, <1>36, <1>38 DEF MainStep
<1>39. ASSUME NEW q \in Queues, WorkerStep(q) PROVE PathKnown'
  BY <1>25, <1>26, <1>27, <1>28, <1>29, <1>30, <1>31, <1>36, <1>39 DEF
     WorkerStep
<1> QED
  BY <1>35, <1>37, <1>38, <1>39 DEF Next

LEMMA PathIsLastNext == TrackerInv /\ [Next]_vars => PathIsLast'
<1> SUFFICES ASSUME TypeOK, HandlerHasWork, ThreadHasWork, OneNotifier,
                    PathStarted, PathIsLast, [Next]_vars
             PROVE  PathIsLast'
  BY DEF TrackerInv, QueueInv, CookieInv, AnswerInv, SignalInv, TypeInv
<1> USE ConstantsAssumption, MainIsThread DEF TypeOK, ThreadTypes, WorkTypes,
    ThreadHasWork, OneNotifier, PathIsLast, Notifying, Running, Final,
    threadVars, workVars
<1>1. ASSUME NEW w \in Works, Request(w) PROVE PathIsLast'
  BY <1>1 DEF Request
<1>2. ASSUME NEW w \in Works, Fetch(w) PROVE PathIsLast'
  BY <1>2 DEF Fetch
<1>3. ASSUME NEW w \in Works, Abort(w) PROVE PathIsLast'
  BY <1>3 DEF Abort
<1>4. CASE AddWork
  BY <1>4 DEF AddWork, Schedule, Enqueue, Accepted, SetScheduled,
     SetScheduledOk
<1>5. CASE AddWorkToFullQueue
  BY <1>5 DEF AddWorkToFullQueue, Schedule, Full, SetScheduled, SetScheduledOk
<1>6. CASE ReplaceWork
  BY <1>6 DEF ReplaceWork, Enqueue, Accepted
<1>7. CASE EatLookup
  BY <1>7 DEF EatLookup
<1>8. CASE EatUnknown
  BY <1>8 DEF EatUnknown, HandlerDone
<1>9. CASE StartWaiting
  BY <1>9 DEF StartWaiting, HandlerHasWork, Eating, SetWaiting
<1>10. CASE WaitEnds
  BY <1>10 DEF WaitEnds
<1>11. CASE EatResult
  BY <1>11 DEF EatResult, HandlerDone, Deliver
<1>12. CASE LockAfterTimeout
  BY <1>12 DEF LockAfterTimeout
<1>13. CASE EatQuickly
  BY <1>13 DEF EatQuickly
<1>14. CASE EatLater
  BY <1>14 DEF EatLater, HandlerDone, SlowPathCookieSent,
     SlowPathCookieSentOk, TakeSlowPath
<1>15. CASE Collect
  BY <1>15 DEF Collect, HandlerDone, Deliver
<1>16. ASSUME NEW t \in Threads, CancelRunnable(t) PROVE PathIsLast'
  BY <1>16 DEF CancelRunnable, CancelAtOnce
<1>17. ASSUME NEW t \in Threads, Cancel(t) PROVE PathIsLast'
  BY <1>17 DEF Cancel, Return
<1>18. ASSUME NEW t \in Threads, NotifyJar(t) PROVE PathIsLast'
  BY <1>18 DEF NotifyJar
<1>19. ASSUME NEW t \in Threads, NotifyEaten(t) PROVE PathIsLast'
  BY <1>19 DEF NotifyEaten, Return
<1>20. ASSUME NEW t \in Threads, NotifyBlocks(t) PROVE PathIsLast'
  BY <1>20 DEF NotifyBlocks
<1>21. ASSUME NEW t \in Threads, NotifyWakesUp(t) PROVE PathIsLast'
  BY <1>21 DEF NotifyWakesUp
<1>22. ASSUME NEW t \in Threads, NotifyClient(t) PROVE PathIsLast'
  BY <1>22 DEF NotifyClient, Return, TakeFastPath, SlowPathReadyNotified,
     SlowPathReadyNotifiedOk
<1>23. ASSUME NEW t \in Threads, NEW q \in Queues, Purge(t, q) PROVE
     PathIsLast'
  BY <1>23 DEF Purge
<1>24. ASSUME NEW t \in Threads, NEW q \in Queues, Purged(t, q) PROVE
     PathIsLast'
  BY <1>24 DEF Purged
<1>25. ASSUME NEW q \in Queues, TakeWork(q) PROVE PathIsLast'
  BY <1>25 DEF TakeWork
<1>26. ASSUME NEW q \in Queues, SkipWork(q) PROVE PathIsLast'
  BY <1>26 DEF SkipWork, Advance
<1>27. ASSUME NEW q \in Queues, RunBegins(q) PROVE PathIsLast'
  BY <1>27 DEF RunBegins
<1>28. ASSUME NEW q \in Queues, NEW r \in Results, DoRun(q, r) PROVE
     PathIsLast'
  BY <1>28 DEF DoRun
<1>29. ASSUME NEW q \in Queues, RunEnds(q) PROVE PathIsLast'
  BY <1>29 DEF RunEnds
<1>30. ASSUME NEW q \in Queues, PopWork(q) PROVE PathIsLast'
  BY <1>30 DEF PopWork
<1>31. ASSUME NEW q \in Queues, WorkerStops(q) PROVE PathIsLast'
  BY <1>31 DEF WorkerStops
<1>32. CASE Quit
  BY <1>32 DEF Quit
<1>33. ASSUME NEW q \in Queues, Shutdown(q) PROVE PathIsLast'
  BY <1>33 DEF Shutdown
<1>34. CASE Join
  BY <1>34 DEF Join
<1>35. CASE UNCHANGED vars
  BY <1>35 DEF vars
<1>36. ASSUME NEW t \in Threads, Subroutine(t) PROVE PathIsLast'
  BY <1>16, <1>17, <1>18, <1>19, <1>20, <1>21, <1>22, <1>23, <1>24, <1>36 DEF
     Subroutine
<1>37. CASE Environment
  BY <1>1, <1>2, <1>3, <1>32, <1>37 DEF Environment
<1>38. CASE MainStep
  BY <1>4, <1>5, <1>6, <1>7, <1>8, <1>9, <1>10, <1>11, <1>12, <1>13, <1>14,
     <1>15, <1>33, <1>34, <1>36, <1>38 DEF MainStep
<1>39. ASSUME NEW q \in Queues, WorkerStep(q) PROVE PathIsLast'
  BY <1>25, <1>26, <1>27, <1>28, <1>29, <1>30, <1>31, <1>36, <1>39 DEF
     WorkerStep
<1> QED
  BY <1>35, <1>37, <1>38, <1>39 DEF Next

LEMMA DoneHasResultNext == TrackerInv /\ [Next]_vars => DoneHasResult'
<1> SUFFICES ASSUME TypeOK, ThreadHasWork, OneNotifier, DoneHasResult,
                    [Next]_vars
             PROVE  DoneHasResult'
  BY DEF TrackerInv, QueueInv, CookieInv, AnswerInv, SignalInv, TypeInv
<1> USE ConstantsAssumption, MainIsThread DEF TypeOK, ThreadTypes, WorkTypes,
    ThreadHasWork, DoneHasResult, Running, threadVars, workVars
<1>1. ASSUME NEW w \in Works, Request(w) PROVE DoneHasResult'
  BY <1>1 DEF Request
<1>2. ASSUME NEW w \in Works, Fetch(w) PROVE DoneHasResult'
  BY <1>2 DEF Fetch
<1>3. ASSUME NEW w \in Works, Abort(w) PROVE DoneHasResult'
  BY <1>3 DEF Abort
<1>4. CASE AddWork
  BY <1>4 DEF AddWork, Schedule, Enqueue, Accepted
<1>5. CASE AddWorkToFullQueue
  BY <1>5 DEF AddWorkToFullQueue, Schedule, Full
<1>6. CASE ReplaceWork
  BY <1>6 DEF ReplaceWork, Enqueue, Accepted
<1>7. CASE EatLookup
  BY <1>7 DEF EatLookup
<1>8. CASE EatUnknown
  BY <1>8 DEF EatUnknown, HandlerDone
<1>9. CASE StartWaiting
  BY <1>9 DEF StartWaiting
<1>10. CASE WaitEnds
  BY <1>10 DEF WaitEnds
<1>11. CASE EatResult
  BY <1>11 DEF EatResult, HandlerDone, Deliver
<1>12. CASE LockAfterTimeout
  BY <1>12 DEF LockAfterTimeout
<1>13. CASE EatQuickly
  BY <1>13 DEF EatQuickly
<1>14. CASE EatLater
  BY <1>14 DEF EatLater, HandlerDone
<1>15. CASE Collect
  BY <1>15 DEF Collect, HandlerDone, Deliver
<1>16. ASSUME NEW t \in Threads, CancelRunnable(t) PROVE DoneHasResult'
  BY <1>16 DEF CancelRunnable
<1>17. ASSUME NEW t \in Threads, Cancel(t) PROVE DoneHasResult'
  BY <1>17 DEF Cancel, Return
<1>18. ASSUME NEW t \in Threads, NotifyJar(t) PROVE DoneHasResult'
  BY <1>18 DEF NotifyJar
<1>19. ASSUME NEW t \in Threads, NotifyEaten(t) PROVE DoneHasResult'
  BY <1>19 DEF NotifyEaten, Return
<1>20. ASSUME NEW t \in Threads, NotifyBlocks(t) PROVE DoneHasResult'
  BY <1>20 DEF NotifyBlocks
<1>21. ASSUME NEW t \in Threads, NotifyWakesUp(t) PROVE DoneHasResult'
  BY <1>21 DEF NotifyWakesUp
<1>22. ASSUME NEW t \in Threads, NotifyClient(t) PROVE DoneHasResult'
  BY <1>22 DEF NotifyClient, Return
<1>23. ASSUME NEW t \in Threads, NEW q \in Queues, Purge(t, q) PROVE
     DoneHasResult'
  BY <1>23 DEF Purge
<1>24. ASSUME NEW t \in Threads, NEW q \in Queues, Purged(t, q) PROVE
     DoneHasResult'
  BY <1>24 DEF Purged
<1>25. ASSUME NEW q \in Queues, TakeWork(q) PROVE DoneHasResult'
  BY <1>25 DEF TakeWork
<1>26. ASSUME NEW q \in Queues, SkipWork(q) PROVE DoneHasResult'
  BY <1>26 DEF SkipWork, Advance
<1>27. ASSUME NEW q \in Queues, RunBegins(q) PROVE DoneHasResult'
  BY <1>27 DEF RunBegins
<1>28. ASSUME NEW q \in Queues, NEW r \in Results, DoRun(q, r) PROVE
     DoneHasResult'
  BY <1>28 DEF DoRun, Results, OneNotifier, ThreadHasWork
<1>29. ASSUME NEW q \in Queues, RunEnds(q) PROVE DoneHasResult'
  BY <1>29 DEF RunEnds
<1>30. ASSUME NEW q \in Queues, PopWork(q) PROVE DoneHasResult'
  BY <1>30 DEF PopWork
<1>31. ASSUME NEW q \in Queues, WorkerStops(q) PROVE DoneHasResult'
  BY <1>31 DEF WorkerStops
<1>32. CASE Quit
  BY <1>32 DEF Quit
<1>33. ASSUME NEW q \in Queues, Shutdown(q) PROVE DoneHasResult'
  BY <1>33 DEF Shutdown
<1>34. CASE Join
  BY <1>34 DEF Join
<1>35. CASE UNCHANGED vars
  BY <1>35 DEF vars
<1>36. ASSUME NEW t \in Threads, Subroutine(t) PROVE DoneHasResult'
  BY <1>16, <1>17, <1>18, <1>19, <1>20, <1>21, <1>22, <1>23, <1>24, <1>36 DEF
     Subroutine
<1>37. CASE Environment
  BY <1>1, <1>2, <1>3, <1>32, <1>37 DEF Environment
<1>38. CASE MainStep
  BY <1>4, <1>5, <1>6, <1>7, <1>8, <1>9, <1>10, <1>11, <1>12, <1>13, <1>14,
     <1>15, <1>33, <1>34, <1>36, <1>38 DEF MainStep
<1>39. ASSUME NEW q \in Queues, WorkerStep(q) PROVE DoneHasResult'
  BY <1>25, <1>26, <1>27, <1>28, <1>29, <1>30, <1>31, <1>36, <1>39 DEF
     WorkerStep
<1> QED
  BY <1>35, <1>37, <1>38, <1>39 DEF Next

LEMMA TrackerQuietNext == TrackerInv /\ [Next]_vars => TrackerQuiet'
<1> SUFFICES ASSUME TypeOK, ThreadHasWork, HandlerHasWork, OneCallServed,
                    PathStarted, Scheduled, StartedByWorker, PathInv,
                    PathKnown, PathIsLast, TrackerQuiet, [Next]_vars
             PROVE  TrackerQuiet'
  BY DEF TrackerInv, QueueInv, CookieInv, AnswerInv, SignalInv, TypeInv
<1> USE ConstantsAssumption, MainIsThread DEF TypeOK, ThreadTypes, WorkTypes,
    QueueTypes, TrackerQuiet, Report
<1>1. ASSUME NEW w \in Works, Request(w) PROVE TrackerQuiet'
  BY <1>1 DEF Request
<1>2. ASSUME NEW w \in Works, Fetch(w) PROVE TrackerQuiet'
  BY <1>2 DEF Fetch
<1>3. ASSUME NEW w \in Works, Abort(w) PROVE TrackerQuiet'
  BY <1>3 DEF Abort
<1>4. CASE AddWork
  BY <1>4 DEF AddWork, Schedule, Enqueue, Accepted, PathStarted, HandlerBusy,
     SetScheduledOk
<1>5. CASE AddWorkToFullQueue
  BY <1>5 DEF AddWorkToFullQueue, Schedule, Full, PathStarted, HandlerBusy,
     SetScheduledOk
<1>6. CASE ReplaceWork
  BY <1>6 DEF ReplaceWork, Enqueue, Accepted
<1>7. CASE EatLookup
  BY <1>7 DEF EatLookup
<1>8. CASE EatUnknown
  BY <1>8 DEF EatUnknown, HandlerDone
<1>9. CASE StartWaiting
  BY <1>9 DEF StartWaiting, PathKnown, OneCallServed, HandlerBusy, Eating,
     SetWaitingOk
<1>10. CASE WaitEnds
  BY <1>10 DEF WaitEnds
<1>11. CASE EatResult
  BY <1>11 DEF EatResult, HandlerDone, Deliver
<1>12. CASE LockAfterTimeout
  BY <1>12 DEF LockAfterTimeout
<1>13. CASE EatQuickly
  BY <1>13 DEF EatQuickly
<1>14. CASE EatLater
  BY <1>14 DEF EatLater, HandlerDone, PathKnown, OneCallServed, HandlerBusy,
     Eating, SlowPathCookieSent, SlowPathCookieSentOk, TakeSlowPath,
     SlowPathResult, AlreadyTaken, ReplyPaths
<1>15. CASE Collect
  BY <1>15 DEF Collect, HandlerDone, Deliver
<1>16. ASSUME NEW t \in Threads, CancelRunnable(t) PROVE TrackerQuiet'
  BY <1>16 DEF CancelRunnable
<1>17. ASSUME NEW t \in Threads, Cancel(t) PROVE TrackerQuiet'
  BY <1>17 DEF Cancel, Return
<1>18. ASSUME NEW t \in Threads, NotifyJar(t) PROVE TrackerQuiet'
  BY <1>18 DEF NotifyJar
<1>19. ASSUME NEW t \in Threads, NotifyEaten(t) PROVE TrackerQuiet'
  BY <1>19 DEF NotifyEaten, Return
<1>20. ASSUME NEW t \in Threads, NotifyBlocks(t) PROVE TrackerQuiet'
  BY <1>20 DEF NotifyBlocks
<1>21. ASSUME NEW t \in Threads, NotifyWakesUp(t) PROVE TrackerQuiet'
  BY <1>21 DEF NotifyWakesUp
<1>22. ASSUME NEW t \in Threads, NotifyClient(t) PROVE TrackerQuiet'
  BY SMTT(30), <1>22 DEF NotifyClient, Return, ThreadHasWork, Scheduled, PathKnown,
     PathIsLast, Notifying, TakeFastPath, SlowPathReadyNotified,
     SlowPathReadyNotifiedOk, FastPathResult, FastPathMustWait, AlreadyTaken,
     Success, ReplyPaths
<1>23. ASSUME NEW t \in Threads, NEW q \in Queues, Purge(t, q) PROVE
     TrackerQuiet'
  BY <1>23 DEF Purge
<1>24. ASSUME NEW t \in Threads, NEW q \in Queues, Purged(t, q) PROVE
     TrackerQuiet'
  BY <1>24 DEF Purged
<1>25. ASSUME NEW q \in Queues, TakeWork(q) PROVE TrackerQuiet'
  BY <1>25 DEF TakeWork
<1>26. ASSUME NEW q \in Queues, SkipWork(q) PROVE TrackerQuiet'
  <2>1. wstate[wip[q]] \notin {"RUNNING", "DONE"}
    <3>1. wip[q] \in Works /\ pc[q] = "take"
      BY <1>26 DEF SkipWork
    <3> QED
      BY <3>1 DEF StartedByWorker, NotStarted, Running, Notifying
  <2> QED
    BY <1>26, <2>1 DEF SkipWork
<1>27. ASSUME NEW q \in Queues, RunBegins(q) PROVE TrackerQuiet'
  BY <1>27 DEF RunBegins
<1>28. ASSUME NEW q \in Queues, NEW r \in Results, DoRun(q, r) PROVE
     TrackerQuiet'
  BY <1>28 DEF DoRun
<1>29. ASSUME NEW q \in Queues, RunEnds(q) PROVE TrackerQuiet'
  BY <1>29 DEF RunEnds
<1>30. ASSUME NEW q \in Queues, PopWork(q) PROVE TrackerQuiet'
  BY <1>30 DEF PopWork
<1>31. ASSUME NEW q \in Queues, WorkerStops(q) PROVE TrackerQuiet'
  BY <1>31 DEF WorkerStops
<1>32. CASE Quit
  BY <1>32 DEF Quit
<1>33. ASSUME NEW q \in Queues, Shutdown(q) PROVE TrackerQuiet'
  BY <1>33 DEF Shutdown
<1>34. CASE Join
  BY <1>34 DEF Join
<1>35. CASE UNCHANGED vars
  BY <1>35 DEF vars
<1>36. ASSUME NEW t \in Threads, Subroutine(t) PROVE TrackerQuiet'
  BY <1>16, <1>17, <1>18, <1>19, <1>20, <1>21, <1>22, <1>23, <1>24, <1>36 DEF
     Subroutine
<1>37. CASE Environment
  BY <1>1, <1>2, <1>3, <1>32, <1>37 DEF Environment
<1>38. CASE MainStep
  BY <1>4, <1>5, <1>6, <1>7, <1>8, <1>9, <1>10, <1>11, <1>12, <1>13, <1>14,
     <1>15, <1>33, <1>34, <1>36, <1>38 DEF MainStep
<1>39. ASSUME NEW q \in Queues, WorkerStep(q) PROVE TrackerQuiet'
  BY <1>25, <1>26, <1>27, <1>28, <1>29, <1>30, <1>31, <1>36, <1>39 DEF
     WorkerStep
<1> QED
  BY <1>35, <1>37, <1>38, <1>39 DEF Next


LEMMA TrackerInit == Init => TrackerInv
<1> SUFFICES ASSUME Init PROVE TrackerInv
  OBVIOUS
<1>1. PathKnown
  BY MainIsThread
  DEF Init, PathKnown, NotQueuedYet, HandlerBusy, Eating, Notifying
<1>2. PathIsLast /\ DoneHasResult /\ TrackerQuiet
  BY MainIsThread, ConstantsAssumption
  DEF Init, PathIsLast, DoneHasResult, TrackerQuiet
<1> QED
  BY <1>1, <1>2, QueueInvInit, CookieInvInit DEF TrackerInv

LEMMA TrackerNext == ~EarlyFetch /\ TrackerInv /\ [Next]_vars => TrackerInv'
<1> SUFFICES ASSUME ~EarlyFetch, TrackerInv, [Next]_vars PROVE TrackerInv'
  OBVIOUS
<1>1. QueueInv'
  BY QueueInvNext DEF TrackerInv
<1>2. CookieInv'
  BY CookieInvNext DEF TrackerInv
<1> QED
  BY <1>1, <1>2, PathKnownNext, PathIsLastNext, DoneHasResultNext, TrackerQuietNext
  DEF TrackerInv

(* As long as clients wait for DataAvailable, neither the reply path       *)
(* tracker nor the work queues have anything to complain about, whatever   *)
(* the number of queues.                                                   *)
THEOREM TrackerNeverComplains ==
    ASSUME ~EarlyFetch PROVE Spec => []TrackerQuiet
<1>1. TrackerInv /\ [Next]_vars => TrackerInv'
  BY TrackerNext
<1>2. TrackerInv => TrackerQuiet
  BY DEF TrackerInv
<1> QED
  BY <1>1, <1>2, TrackerInit, PTL DEF Spec
=============================================================================
