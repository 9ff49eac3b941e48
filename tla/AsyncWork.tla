------------------------------ MODULE AsyncWork ------------------------------
(***************************************************************************)
(* Asynchronous D-Bus method calls of the list brokers: work items, work   *)
(* queues with one worker thread each, and the cookie jar                  *)
(* (common/dbus_async_work.hh, dbus_async_workqueue.cc, work_by_cookie.*,  *)
(* and the handlers of dbus_lists_handlers.cc that use them).              *)
(*                                                                         *)
(* Threads: Main is the thread of the GLib main loop.  It runs every D-Bus *)
(* method handler, one at a time, and after the loop has quit it shuts     *)
(* down the queues.  Each queue q has a worker thread, also named q.       *)
(*                                                                         *)
(* A step of a thread begins where the code takes a lock or waits, and     *)
(* ends before it takes the next one.  Locks held over several steps are   *)
(* explicit: qlock, wlock, jlock.  A work item stands for one method call  *)
(* together with its cookie: cookies in use are pairwise different.        *)
(*                                                                         *)
(* The works of Interruptible call ListTreeIface's may_continue_fn_ in     *)
(* their do_run(), and may find a cancelation pending that was meant for   *)
(* another work item, because the counter is shared by the whole tree.     *)
(***************************************************************************)
EXTENDS Naturals, Sequences, ReplyPath

CONSTANTS Works, Queues, Main, NoWork, NoThread,
          QueueOf,        \* the queue the handler of a work item puts it into
          ModeOf,         \* DataAvailableNotificationMode of a work item
          Interruptible,  \* works which check for pending cancelations
          MaxQueueLen,    \* maximum_queue_length_ (0 in both programs)
          EarlyFetch      \* TRUE: clients may fetch without DataAvailable

Modes == {"AFTER_TIMEOUT", "ALWAYS"}

ASSUME ConstantsAssumption ==
    /\ Main \notin Queues
    /\ NoThread \notin Queues \cup {Main}
    /\ NoWork \notin Works
    /\ QueueOf \in [Works -> Queues]
    /\ ModeOf \in [Works -> Modes]
    /\ Interruptible \subseteq Works
    /\ MaxQueueLen \in Nat
    /\ EarlyFetch \in BOOLEAN

Threads == Queues \cup {Main}

VARIABLES
    pc,         \* where each thread is
    cur,        \* the work item a thread works on (a shared_ptr it holds)
    obj,        \* the work item a thread cancels or notifies about
    ret,        \* where a thread goes when cancel or notification is through
    qlock, accepting, wip, queue,              \* WorkQueue
    wlock, wstate, cancelReq, promise, rp,     \* Work and its subclasses
    jlock, jar,                                \* CookieJar
    asked,      \* works whose method call has come in
    reply,      \* the answer to the method call
    got,        \* the answer to the ByCookie method call
    avail, derr,\* number of DataAvailable and DataError signals per cookie
    bugs        \* the MSG_BUG() reports logged so far

threadVars == <<pc, cur, obj, ret>>
queueVars  == <<qlock, accepting, wip, queue>>
workVars   == <<wlock, wstate, cancelReq, promise, rp>>
jarVars    == <<jlock, jar>>
clientVars == <<asked, reply, got, avail, derr>>
vars == <<threadVars, queueVars, workVars, jarVars, clientVars, bugs>>

MainLabels == {"idle", "add", "replace", "eat", "wait", "waiting", "erase",
               "timeout", "quick", "collect", "stop", "join", "halt"}
WorkerLabels == {"take", "run", "dorun", "finish", "pop", "exited"}
SharedLabels == {"cancel", "notify", "decide", "sync", "purge"}
Labels == MainLabels \cup WorkerLabels \cup SharedLabels

WorkStates == {"RUNNABLE", "RUNNING", "DONE", "CANCELING", "CANCELED"}
Results    == {"OK", "FAILED", "INTERRUPTED"}
BugReports == {"SCHEDULE", "WAITING", "SLOW_PATH", "COOKIE_SENT", "FAST_PATH",
               "READY_NOTIFIED", "RUN", "QUEUED", "UNEXPECTED_FAILURE"}

ThreadTypes ==
    /\ pc \in [Threads -> Labels]
    /\ cur \in [Threads -> Works \cup {NoWork}]
    /\ obj \in [Threads -> Works \cup {NoWork}]
    /\ ret \in [Threads -> {"idle", "replace", "pop", "purge"}]

QueueTypes ==
    /\ qlock \in [Queues -> Threads \cup {NoThread}]
    /\ accepting \in [Queues -> BOOLEAN]
    /\ wip \in [Queues -> Works \cup {NoWork}]
    /\ queue \in [Queues -> Seq(Works)]

WorkTypes ==
    /\ wlock \in [Works -> Threads \cup {NoThread}]
    /\ wstate \in [Works -> WorkStates]
    /\ cancelReq \in [Works -> BOOLEAN]
    /\ promise \in [Works -> Results \cup {"unset"}]
    /\ rp \in [Works -> ReplyPaths]

JarTypes ==
    /\ jlock \in Threads \cup {NoThread}
    /\ jar \subseteq Works

ClientTypes ==
    /\ asked \subseteq Works
    /\ reply \in [Works -> {"none", "result", "cookie", "error"}]
    /\ got \in [Works -> {"none", "result", "bad"}]
    /\ avail \in [Works -> Nat]
    /\ derr \in [Works -> Nat]
    /\ bugs \subseteq BugReports

(* Type invariant *)
TypeOK == ThreadTypes /\ QueueTypes /\ WorkTypes /\ JarTypes /\ ClientTypes

Init ==
    /\ pc = [t \in Threads |-> IF t = Main THEN "idle" ELSE "take"]
    /\ cur = [t \in Threads |-> NoWork]
    /\ obj = [t \in Threads |-> NoWork]
    /\ ret = [t \in Threads |-> "idle"]
    /\ qlock = [q \in Queues |-> NoThread]
    /\ accepting = [q \in Queues |-> TRUE]
    /\ wip = [q \in Queues |-> NoWork]
    /\ queue = [q \in Queues |-> <<>>]
    /\ wlock = [w \in Works |-> NoThread]
    /\ wstate = [w \in Works |-> "RUNNABLE"]
    /\ cancelReq = [w \in Works |-> FALSE]
    /\ promise = [w \in Works |-> "unset"]
    /\ rp = [w \in Works |-> "NONE"]
    /\ jlock = NoThread
    /\ jar = {}
    /\ asked = {}
    /\ reply = [w \in Works |-> "none"]
    /\ got = [w \in Works |-> "none"]
    /\ avail = [w \in Works |-> 0]
    /\ derr = [w \in Works |-> 0]
    /\ bugs = {}

-----------------------------------------------------------------------------
(* Object lifetime and the cancelation counter of the list tree.           *)

(* A work item lives as long as somebody holds a shared_ptr to it. *)
Alive(w) ==
    \/ w \in jar
    \/ \E t \in Threads : cur[t] = w \/ obj[t] = w
    \/ \E q \in Queues : wip[q] = w \/ \E i \in 1..Len(queue[q]) : queue[q][i] = w

(* do_cancel() has pushed the counter, ~NavListsWork() pops it again:      *)
(* is_blocking_operation_allowed() is the negation of this.                *)
CancelPending == \E w \in Works : cancelReq[w] /\ Alive(w)

(* MSG_BUG(): log a report unless the condition holds. *)
Report(ok, bug) == IF ok THEN {} ELSE {bug}

-----------------------------------------------------------------------------
(* Handlers run by Main: entry points.                                     *)

(* Any of the Get..., or RealizeLocation: make the work, put it in the jar. *)
Request(w) ==
    /\ pc[Main] = "idle" /\ w \notin asked /\ jlock = NoThread
    /\ asked' = asked \cup {w}
    /\ jar' = jar \cup {w}
    /\ cur' = [cur EXCEPT ![Main] = w]
    /\ pc' = [pc EXCEPT ![Main] = "add"]
    /\ UNCHANGED <<obj, ret, queueVars, workVars, jlock, reply, got, avail,
                   derr, bugs>>

(* Any of the ...ByCookie handlers, called by a client that knows a cookie. *)
Fetch(w) ==
    /\ pc[Main] = "idle" /\ reply[w] = "cookie" /\ got[w] = "none"
    /\ EarlyFetch \/ avail[w] > 0
    /\ cur' = [cur EXCEPT ![Main] = w]
    /\ pc' = [pc EXCEPT ![Main] = "eat"]
    /\ UNCHANGED <<obj, ret, queueVars, workVars, jarVars, clientVars, bugs>>

(* DataAbort: look up the cookie, cancel its work with the jar unlocked. *)
Abort(w) ==
    /\ pc[Main] = "idle" /\ reply[w] = "cookie" /\ jlock = NoThread
    /\ w \in jar
    /\ obj' = [obj EXCEPT ![Main] = w]
    /\ ret' = [ret EXCEPT ![Main] = "idle"]
    /\ pc' = [pc EXCEPT ![Main] = "cancel"]
    /\ UNCHANGED <<cur, queueVars, workVars, jarVars, clientVars, bugs>>

-----------------------------------------------------------------------------
(* WorkQueue::add_work() and queue_work().                                 *)

(* queue_work() once there is room: w becomes the work in progress of a    *)
(* queue that has none (busy = FALSE) and no backlog, or joins the backlog *)
Enqueue(q, w, busy) ==
    /\ wip' = [wip EXCEPT ![q] = IF busy THEN @
                                 ELSE IF queue[q] = <<>> THEN w
                                 ELSE Head(queue[q])]
    /\ queue' = [queue EXCEPT ![q] = IF busy THEN Append(@, w)
                                     ELSE IF @ = <<>> THEN @
                                     ELSE Append(Tail(@), w)]

(* What the handler does when its work is in the queue: a pure asynchronous *)
(* method is answered with the cookie by the work_accepted callback, one    *)
(* with a fast path goes on to eat its cookie.                              *)
Accepted(w) ==
    LET always == ModeOf[w] = "ALWAYS" IN
    /\ reply' = [reply EXCEPT ![w] = IF always THEN "cookie" ELSE @]
    /\ cur' = [cur EXCEPT ![Main] = IF always THEN NoWork ELSE w]
    /\ pc' = [pc EXCEPT ![Main] = IF always THEN "idle" ELSE "eat"]

(* A queue that has work in progress and a full backlog is full. *)
Full(q) == wip[q] # NoWork /\ Len(queue[q]) >= MaxQueueLen

(* add_work() takes the queue lock and marks the work as scheduled... *)
Schedule(w) ==
    /\ qlock[QueueOf[w]] = NoThread /\ wlock[w] = NoThread
    /\ rp' = [rp EXCEPT ![w] = SetScheduled(@)]
    /\ bugs' = bugs \cup Report(SetScheduledOk(rp[w]), "SCHEDULE")
    /\ UNCHANGED <<accepting, wlock, wstate, cancelReq, promise, jarVars,
                   asked, got, avail, derr>>

(* ...and queues it, *)
AddWork ==
    LET w == cur[Main]  q == QueueOf[w] IN
    /\ pc[Main] = "add" /\ ~Full(q)
    /\ Schedule(w)
    /\ Enqueue(q, w, wip[q] # NoWork)
    /\ Accepted(w)
    /\ UNCHANGED <<qlock, obj, ret>>

(* or has to cancel the work in progress first, with the queue locked. *)
AddWorkToFullQueue ==
    LET w == cur[Main]  q == QueueOf[w] IN
    /\ pc[Main] = "add" /\ Full(q)
    /\ Schedule(w)
    /\ qlock' = [qlock EXCEPT ![q] = Main]
    /\ obj' = [obj EXCEPT ![Main] = wip[q]]
    /\ ret' = [ret EXCEPT ![Main] = "replace"]
    /\ pc' = [pc EXCEPT ![Main] = "cancel"]
    /\ UNCHANGED <<cur, wip, queue, reply>>

(* The work in progress has been canceled and is replaced. *)
ReplaceWork ==
    LET w == cur[Main]  q == QueueOf[w] IN
    /\ pc[Main] = "replace"
    /\ Enqueue(q, w, FALSE)
    /\ Accepted(w)
    /\ qlock' = [qlock EXCEPT ![q] = NoThread]
    /\ UNCHANGED <<obj, ret, accepting, workVars, jarVars, asked, got, avail,
                   derr, bugs>>

-----------------------------------------------------------------------------
(* CookieJar::try_eat() in Main.  The handler of the method call itself    *)
(* (try_fast_path) has not answered yet, a ByCookie handler                *)
(* (finish_slow_path) is one for a cookie that was handed out.             *)

Fetching(w) == reply[w] = "cookie"

HandlerDone ==
    /\ cur' = [cur EXCEPT ![Main] = NoWork]
    /\ pc' = [pc EXCEPT ![Main] = "idle"]

(* Mutant: every result is taken for one that was fetched. *)
Deliver_Fetched(w) ==
    /\ got' = [got EXCEPT ![w] = "result"]
    /\ UNCHANGED reply

(* Answer the pending method call with the result. *)
Deliver(w) ==
    /\ got' = [got EXCEPT ![w] = IF Fetching(w) THEN "result" ELSE @]
    /\ reply' = [reply EXCEPT ![w] = IF Fetching(w) THEN @ ELSE "result"]

EatLookup ==
    /\ pc[Main] = "eat" /\ jlock = NoThread /\ cur[Main] \in jar
    /\ pc' = [pc EXCEPT ![Main] = "wait"]
    /\ UNCHANGED <<cur, obj, ret, queueVars, workVars, jarVars, clientVars, bugs>>

(* BadCookieError: a D-Bus error for the client, and a bug if the cookie   *)
(* is the one the handler itself has put into the jar.                     *)
EatUnknown ==
    LET w == cur[Main] IN
    /\ pc[Main] = "eat" /\ jlock = NoThread /\ w \notin jar
    /\ got' = [got EXCEPT ![w] = IF Fetching(w) THEN "bad" ELSE @]
    /\ reply' = [reply EXCEPT ![w] = IF Fetching(w) THEN @ ELSE "error"]
    /\ bugs' = bugs \cup Report(Fetching(w), "UNEXPECTED_FAILURE")
    /\ HandlerDone
    /\ UNCHANGED <<obj, ret, queueVars, workVars, jarVars, asked, avail, derr>>

(* wait_for(): tell the tracker, then wait for the future without a lock. *)
StartWaiting ==
    LET w == cur[Main] IN
    /\ pc[Main] = "wait" /\ wlock[w] = NoThread
    /\ rp' = [rp EXCEPT ![w] = SetWaiting(@)]
    /\ bugs' = bugs \cup Report(SetWaitingOk(rp[w]), "WAITING")
    /\ pc' = [pc EXCEPT ![Main] = "waiting"]
    /\ UNCHANGED <<cur, obj, ret, queueVars, wlock, wstate, cancelReq, promise,
                   jarVars, clientVars>>

(* The future becomes ready within 150 ms, or it does not. *)
WaitEnds ==
    /\ pc[Main] = "waiting"
    /\ pc' = [pc EXCEPT ![Main] =
                  IF promise[cur[Main]] = "unset" THEN "timeout" ELSE "erase"]
    /\ UNCHANGED <<cur, obj, ret, queueVars, workVars, jarVars, clientVars, bugs>>

EatResult ==
    LET w == cur[Main] IN
    /\ pc[Main] = "erase" /\ jlock = NoThread
    /\ jar' = jar \ {w}
    /\ Deliver(w)
    /\ HandlerDone
    /\ UNCHANGED <<obj, ret, queueVars, workVars, jlock, asked, avail, derr, bugs>>

LockAfterTimeout ==
    LET w == cur[Main] IN
    /\ pc[Main] = "timeout" /\ wlock[w] = NoThread
    /\ wlock' = [wlock EXCEPT ![w] = Main]
    /\ pc' = [pc EXCEPT ![Main] = "quick"]
    /\ UNCHANGED <<cur, obj, ret, queueVars, wstate, cancelReq, promise, rp,
                   jarVars, clientVars, bugs>>

(* try_eat_quickly(), with the jar locked as well: the work has taken the  *)
(* fast path just now, and the jar remains locked,                         *)
EatQuickly ==
    LET w == cur[Main] IN
    /\ pc[Main] = "quick" /\ jlock = NoThread
    /\ SlowPathResult(rp[w]) = "ALREADY_ON_FAST_PATH"
    /\ wlock' = [wlock EXCEPT ![w] = NoThread]
    /\ jlock' = Main
    /\ pc' = [pc EXCEPT ![Main] = "collect"]
    /\ UNCHANGED <<cur, obj, ret, queueVars, wstate, cancelReq, promise, rp, jar,
                   clientVars, bugs>>

(* or the slow path is taken, and the cookie announced (the answer to a    *)
(* method call), or the client told that the broker is busy (to a fetch).  *)
EatLater ==
    LET w == cur[Main]
        result == SlowPathResult(rp[w])
        entered == TakeSlowPath(rp[w])
    IN
    /\ pc[Main] = "quick" /\ jlock = NoThread
    /\ result # "ALREADY_ON_FAST_PATH"
    /\ rp' = [rp EXCEPT ![w] = SlowPathCookieSent(entered)]
    /\ reply' = [reply EXCEPT ![w] = "cookie"]
    /\ bugs' = bugs
               \cup Report(result \in {"TAKEN", "FETCHING"}, "SLOW_PATH")
               \cup Report(SlowPathCookieSentOk(entered), "COOKIE_SENT")
    /\ wlock' = [wlock EXCEPT ![w] = NoThread]
    /\ HandlerDone
    /\ UNCHANGED <<obj, ret, queueVars, wstate, cancelReq, promise, jarVars,
                   asked, got, avail, derr>>

(* take_result_from_fast_path(), with the jar still locked. *)
Collect ==
    LET w == cur[Main] IN
    /\ pc[Main] = "collect" /\ promise[w] # "unset"
    /\ jar' = jar \ {w}
    /\ jlock' = NoThread
    /\ Deliver(w)
    /\ HandlerDone
    /\ UNCHANGED <<obj, ret, queueVars, workVars, asked, avail, derr, bugs>>

-----------------------------------------------------------------------------
(* Work::cancel() and CookieJar::work_done_notification(), called by any   *)
(* thread t for the work obj[t].                                           *)

Return(t) ==
    /\ pc' = [pc EXCEPT ![t] = ret[t]]
    /\ obj' = [obj EXCEPT ![t] = NoWork]

(* Mutant: work that is done is canceled once more. *)
CancelAtOnce_Done(w) == wstate[w] \in {"RUNNABLE", "DONE"}

CancelAtOnce(w) == wstate[w] = "RUNNABLE"

(* cancel(): work that did not start yet is finished off right here, with  *)
(* a notification,                                                         *)
CancelRunnable(t) ==
    LET w == obj[t] IN
    /\ pc[t] = "cancel" /\ wlock[w] = NoThread /\ CancelAtOnce(w)
    /\ wstate' = [wstate EXCEPT ![w] = "CANCELED"]
    /\ wlock' = [wlock EXCEPT ![w] = t]
    /\ pc' = [pc EXCEPT ![t] = "notify"]
    /\ UNCHANGED <<cur, obj, ret, queueVars, cancelReq, promise, rp, jarVars,
                   clientVars, bugs>>

(* running work is asked to stop, and will notify by itself; anything else *)
(* is left alone.                                                          *)
Cancel(t) ==
    LET w == obj[t]  running == wstate[w] = "RUNNING" IN
    /\ pc[t] = "cancel" /\ wlock[w] = NoThread /\ ~CancelAtOnce(w)
    /\ wstate' = [wstate EXCEPT ![w] = IF running THEN "CANCELING" ELSE @]
    /\ cancelReq' = [cancelReq EXCEPT ![w] = running \/ @]
    /\ Return(t)
    /\ UNCHANGED <<cur, ret, queueVars, wlock, promise, rp, jarVars, clientVars,
                   bugs>>

(* CookiedWorkBase::success() *)
Success(w) == wstate[w] = "DONE" /\ promise[w] # "FAILED"

(* Mutants: all work leaves the jar, no work leaves the jar. *)
LeavesJar_Always(w) == TRUE
LeavesJar_Never(w)  == FALSE

(* Canceled work is not going to be fetched, and is dropped by the jar. *)
LeavesJar(w) == wstate[w] = "CANCELED"

(* The part of the notification that needs the jar, if the work is still   *)
(* there,                                                                  *)
NotifyJar(t) ==
    LET w == obj[t] IN
    /\ pc[t] = "notify" /\ jlock = NoThread /\ w \in jar
    /\ jar' = IF LeavesJar(w) THEN jar \ {w} ELSE jar
    /\ pc' = [pc EXCEPT ![t] = "decide"]
    /\ UNCHANGED <<cur, obj, ret, queueVars, workVars, jlock, clientVars, bugs>>

(* or if the result has been eaten already. *)
NotifyEaten(t) ==
    LET w == obj[t] IN
    /\ pc[t] = "notify" /\ jlock = NoThread /\ w \notin jar
    /\ wlock' = [wlock EXCEPT ![w] = NoThread]
    /\ Return(t)
    /\ UNCHANGED <<cur, ret, queueVars, wstate, cancelReq, promise, rp, jarVars,
                   clientVars, bugs>>

(* try_take_fast_path() in SCHEDULED: wait, with the work unlocked. *)
NotifyBlocks(t) ==
    LET w == obj[t] IN
    /\ pc[t] = "decide" /\ FastPathMustWait(rp[w])
    /\ wlock' = [wlock EXCEPT ![w] = NoThread]
    /\ pc' = [pc EXCEPT ![t] = "sync"]
    /\ UNCHANGED <<cur, obj, ret, queueVars, wstate, cancelReq, promise, rp,
                   jarVars, clientVars, bugs>>

(* The thread that made the call has started to wait: go on, fast path. *)
NotifyWakesUp(t) ==
    LET w == obj[t] IN
    /\ pc[t] = "sync" /\ rp[w] = "WAITING" /\ wlock[w] = NoThread
    /\ wlock' = [wlock EXCEPT ![w] = t]
    /\ pc' = [pc EXCEPT ![t] = "decide"]
    /\ UNCHANGED <<cur, obj, ret, queueVars, wstate, cancelReq, promise, rp,
                   jarVars, clientVars, bugs>>

(* Take the fast path if nobody has taken another one yet, and tell the    *)
(* client about the result if it expects to be told.                       *)
NotifyClient(t) ==
    LET w == obj[t]
        result  == FastPathResult(rp[w])
        path    == TakeFastPath(rp[w])
        signals == \/ result = "COOKIE_ANNOUNCED"
                   \/ result = "TAKEN" /\ Success(w) /\ ModeOf[w] = "ALWAYS"
        ready   == signals /\ Success(w)
    IN
    /\ pc[t] = "decide" /\ ~FastPathMustWait(rp[w])
    /\ avail' = [avail EXCEPT ![w] = IF ready THEN @ + 1 ELSE @]
    /\ derr' = [derr EXCEPT ![w] = IF signals /\ ~ready THEN @ + 1 ELSE @]
    /\ rp' = [rp EXCEPT ![w] = IF ready THEN SlowPathReadyNotified(path)
                                        ELSE path]
    /\ bugs' = bugs
               \cup Report(result \in {"TAKEN", "COOKIE_ANNOUNCED"}, "FAST_PATH")
               \cup Report(ready => SlowPathReadyNotifiedOk(path),
                           "READY_NOTIFIED")
    /\ wlock' = [wlock EXCEPT ![w] = NoThread]
    /\ Return(t)
    /\ UNCHANGED <<cur, ret, queueVars, wstate, cancelReq, promise, jarVars,
                   asked, reply, got>>

-----------------------------------------------------------------------------
(* The worker thread of queue q: process_work_item() in a loop.            *)

(* The work in progress is over: go on with the next one in the queue. *)
Advance(q) ==
    /\ wip' = [wip EXCEPT ![q] = IF queue[q] = <<>> THEN NoWork
                                                    ELSE Head(queue[q])]
    /\ queue' = [queue EXCEPT ![q] = IF @ = <<>> THEN @ ELSE Tail(@)]

(* Look at the work in progress, then unlock the queue to run it; *)
TakeWork(q) ==
    LET w == wip[q] IN
    /\ pc[q] = "take" /\ qlock[q] = NoThread /\ accepting[q] /\ w # NoWork
    /\ wstate[w] = "RUNNABLE"
    /\ cur' = [cur EXCEPT ![q] = w]
    /\ pc' = [pc EXCEPT ![q] = "run"]
    /\ UNCHANGED <<obj, ret, queueVars, workVars, jarVars, clientVars, bugs>>

(* skip it if it has been canceled in the queue. *)
SkipWork(q) ==
    LET w == wip[q] IN
    /\ pc[q] = "take" /\ qlock[q] = NoThread /\ accepting[q] /\ w # NoWork
    /\ wstate[w] # "RUNNABLE"
    /\ Advance(q)
    /\ bugs' = bugs \cup Report(wstate[w] \notin {"RUNNING", "DONE"}, "QUEUED")
    /\ UNCHANGED <<threadVars, qlock, accepting, workVars, jarVars, clientVars>>

(* run(), before do_run() *)
RunBegins(q) ==
    LET w == cur[q]  runnable == wstate[w] = "RUNNABLE" IN
    /\ pc[q] = "run" /\ wlock[w] = NoThread
    /\ wstate' = [wstate EXCEPT ![w] = IF runnable THEN "RUNNING" ELSE @]
    /\ bugs' = bugs \cup Report(runnable, "RUN")
    /\ pc' = [pc EXCEPT ![q] = IF runnable THEN "dorun" ELSE "pop"]
    /\ UNCHANGED <<cur, obj, ret, queueVars, wlock, cancelReq, promise, rp,
                   jarVars, clientVars>>

(* do_run(): comes up with a result, without any lock. *)
DoRun(q, r) ==
    LET w == cur[q] IN
    /\ pc[q] = "dorun"
    /\ r = "INTERRUPTED" => w \in Interruptible /\ CancelPending
    /\ promise' = [promise EXCEPT ![w] = r]
    /\ pc' = [pc EXCEPT ![q] = "finish"]
    /\ UNCHANGED <<cur, obj, ret, queueVars, wlock, wstate, cancelReq, rp,
                   jarVars, clientVars, bugs>>

(* run(), after do_run() *)
RunEnds(q) ==
    LET w == cur[q] IN
    /\ pc[q] = "finish" /\ wlock[w] = NoThread
    /\ wstate' = [wstate EXCEPT ![w] =
                      IF @ = "RUNNING" /\ promise[w] # "INTERRUPTED"
                      THEN "DONE" ELSE "CANCELED"]
    /\ wlock' = [wlock EXCEPT ![w] = q]
    /\ obj' = [obj EXCEPT ![q] = w]
    /\ ret' = [ret EXCEPT ![q] = "pop"]
    /\ pc' = [pc EXCEPT ![q] = "notify"]
    /\ UNCHANGED <<cur, queueVars, cancelReq, promise, rp, jarVars, clientVars,
                   bugs>>

(* The work is not in progress any more if it was replaced meanwhile. *)
PopWork(q) ==
    LET last == wip[q] = cur[q] /\ queue[q] = <<>>
        next == wip[q] = cur[q] /\ queue[q] # <<>>
    IN
    /\ pc[q] = "pop" /\ qlock[q] = NoThread
    /\ wip' = [wip EXCEPT ![q] = IF last THEN NoWork
                                 ELSE IF next THEN Head(queue[q])
                                 ELSE @]
    /\ queue' = [queue EXCEPT ![q] = IF next THEN Tail(@) ELSE @]
    /\ cur' = [cur EXCEPT ![q] = NoWork]
    /\ pc' = [pc EXCEPT ![q] = "take"]
    /\ UNCHANGED <<obj, ret, qlock, accepting, workVars, jarVars, clientVars,
                   bugs>>

(* The queue is closed: cancel what is left, then leave the thread. *)
WorkerStops(q) ==
    /\ pc[q] = "take" /\ qlock[q] = NoThread /\ ~accepting[q]
    /\ qlock' = [qlock EXCEPT ![q] = q]
    /\ pc' = [pc EXCEPT ![q] = "purge"]
    /\ UNCHANGED <<cur, obj, ret, accepting, wip, queue, workVars, jarVars,
                   clientVars, bugs>>

-----------------------------------------------------------------------------
(* Shutdown.                                                               *)

(* The main loop has quit (SIGINT, SIGTERM, or D-Bus name lost). *)
Quit ==
    /\ pc[Main] = "idle"
    /\ pc' = [pc EXCEPT ![Main] = "stop"]
    /\ UNCHANGED <<cur, obj, ret, queueVars, workVars, jarVars, clientVars, bugs>>

(* WorkQueue::shutdown(), for one queue after the other. *)
Shutdown(q) ==
    /\ pc[Main] = "stop" /\ accepting[q] /\ qlock[q] = NoThread
    /\ accepting' = [accepting EXCEPT ![q] = FALSE]
    /\ qlock' = [qlock EXCEPT ![q] = Main]
    /\ pc' = [pc EXCEPT ![Main] = "purge"]
    /\ UNCHANGED <<cur, obj, ret, wip, queue, workVars, jarVars, clientVars, bugs>>

(* cancel_all_work() in thread t, which has queue q locked: first the      *)
(* backlog, then the work in progress.                                     *)
Purge(t, q) ==
    LET backlog == queue[q] # <<>> IN
    /\ pc[t] = "purge" /\ qlock[q] = t
    /\ backlog \/ wip[q] # NoWork
    /\ obj' = [obj EXCEPT ![t] = IF backlog THEN Head(queue[q]) ELSE wip[q]]
    /\ queue' = [queue EXCEPT ![q] = IF backlog THEN Tail(@) ELSE @]
    /\ wip' = [wip EXCEPT ![q] = IF backlog THEN @ ELSE NoWork]
    /\ ret' = [ret EXCEPT ![t] = "purge"]
    /\ pc' = [pc EXCEPT ![t] = "cancel"]
    /\ UNCHANGED <<cur, qlock, accepting, workVars, jarVars, clientVars, bugs>>

Purged(t, q) ==
    /\ pc[t] = "purge" /\ qlock[q] = t
    /\ queue[q] = <<>> /\ wip[q] = NoWork
    /\ qlock' = [qlock EXCEPT ![q] = NoThread]
    /\ pc' = [pc EXCEPT ![t] = IF t = Main THEN "join" ELSE "exited"]
    /\ UNCHANGED <<cur, obj, ret, accepting, wip, queue, workVars, jarVars,
                   clientVars, bugs>>

Join ==
    /\ pc[Main] = "join"
    /\ \A q \in Queues : ~accepting[q] => pc[q] = "exited"
    /\ pc' = [pc EXCEPT ![Main] =
                  IF \A q \in Queues : ~accepting[q] THEN "halt" ELSE "stop"]
    /\ UNCHANGED <<cur, obj, ret, queueVars, workVars, jarVars, clientVars, bugs>>

-----------------------------------------------------------------------------
(* What other programs decide: method calls, and the signal to quit. *)
Environment == Quit \/ \E w \in Works : Request(w) \/ Fetch(w) \/ Abort(w)

(* Cancel, notification and cancel_all_work(), wherever they are called. *)
Subroutine(t) ==
    \/ CancelRunnable(t) \/ Cancel(t)
    \/ NotifyJar(t) \/ NotifyEaten(t)
    \/ NotifyBlocks(t) \/ NotifyWakesUp(t) \/ NotifyClient(t)
    \/ \E q \in Queues : Purge(t, q) \/ Purged(t, q)

MainStep ==
    \/ AddWork \/ AddWorkToFullQueue \/ ReplaceWork
    \/ EatLookup \/ EatUnknown \/ StartWaiting \/ WaitEnds \/ EatResult
    \/ LockAfterTimeout \/ EatQuickly \/ EatLater \/ Collect
    \/ Subroutine(Main)
    \/ (\E q \in Queues : Shutdown(q)) \/ Join

WorkerStep(q) ==
    \/ TakeWork(q) \/ SkipWork(q) \/ RunBegins(q) \/ RunEnds(q) \/ PopWork(q)
    \/ WorkerStops(q)
    \/ \E r \in Results : DoRun(q, r)
    \/ Subroutine(q)

Next == Environment \/ MainStep \/ \E q \in Queues : WorkerStep(q)

Spec == Init /\ [][Next]_vars

(* Threads are scheduled, the 150 ms pass, and do_run() returns.  Nobody   *)
(* has to call a method, or to quit.  A worker gets a lock that is free    *)
(* again and again (strong fairness): a polling client makes Main take the *)
(* work lock every 150 ms, but only for an instant.                        *)
Fairness == WF_vars(MainStep) /\ \A q \in Queues : SF_vars(WorkerStep(q))

FairSpec == Spec /\ Fairness
-----------------------------------------------------------------------------
(* Properties.                                                             *)

(* No signal for a cookie is emitted before the client has been told the   *)
(* cookie: try_eat_quickly() and work_done_notification() are ordered by   *)
(* the reply path tracker, whatever the worker does in the meantime.       *)
CookieBeforeSignal ==
    \A w \in Works : avail[w] + derr[w] > 0 => reply[w] = "cookie"

(* At most one DataAvailable or DataError signal per cookie, although      *)
(* completion, cancelation by DataAbort, by a later request and by         *)
(* shutdown may all race for work_done_notification().                     *)
SignalOnce == \A w \in Works : avail[w] + derr[w] <= 1

(* When the main loop is back in control, every method call that came in   *)
(* has been answered, on every path through try_fast_path().               *)
EveryCallAnswered ==
    pc[Main] = "idle" => \A w \in asked : reply[w] # "none"

(* A cookie announced by DataAvailable is good: the result is still in the *)
(* jar when the client comes to fetch it, DataAbort in between or not.     *)
AvailableIsFetchable == \A w \in Works : avail[w] > 0 => got[w] # "bad"

(* A work item is interrupted only because of a cancelation that is pending *)
(* at this moment: its own one, or that of an earlier work item which a     *)
(* DataAbort handler still holds on to, or that of work which is alive in   *)
(* another queue, since all queues share one counter.  Work that it has     *)
(* replaced in its own queue never stops it: that work is destroyed, and    *)
(* its cancelation taken back from the counter, before do_run() starts.     *)
InterruptedByPendingCancelOnly ==
    [][\A w \in Works :
          promise[w] # "INTERRUPTED" /\ promise'[w] = "INTERRUPTED" =>
              \/ cancelReq[w]
              \/ obj[Main] \in Works /\ cancelReq[obj[Main]]
              \/ \E v \in Works :
                    cancelReq[v] /\ Alive(v) /\ QueueOf[v] # QueueOf[w]]_vars

(* The works which have been interrupted although none of their own queue  *)
(* had to be asked to stop for that.                                       *)
InterruptedForOthers ==
    {w \in Interruptible :
        /\ promise[w] = "INTERRUPTED"
        /\ \E v \in Works : cancelReq[v] /\ QueueOf[v] # QueueOf[w]}

(* With well-behaved clients, two MSG_BUG()s at most are reported.  One is *)
(* in Work::run(): process_work_item() checks the state of the work before *)
(* it unlocks the queue, and a cancel() in between makes run() complain.   *)
(* The other one is the "Unexpected failure" of try_fast_path(); it comes  *)
(* with an error for the client, and only if the work was interrupted on   *)
(* behalf of another queue.  With one queue only, or work that never looks *)
(* at the counter, there is nothing but the former.                        *)
NoBugReports ==
    /\ bugs \subseteq {"RUN", "UNEXPECTED_FAILURE"}
    /\ "UNEXPECTED_FAILURE" \in bugs => \E w \in Works : reply[w] = "error"
    /\ \A w \in Works : reply[w] = "error" => w \in InterruptedForOthers

(* try_fast_path() never fails to find the work it has just put in the jar *)
(* (MSG_BUG "Unexpected failure").                                         *)
OwnCookieIsKnown == "UNEXPECTED_FAILURE" \notin bugs

(* The position of a tracker state on its way from NONE to the end. *)
PathRank(s) == CASE s = "NONE"                     -> 0
                 [] s = "SCHEDULED"                -> 1
                 [] s = "WAITING"                  -> 2
                 [] s = "FAST_PATH"                -> 6
                 [] s = "SLOW_PATH_ENTERED"        -> 3
                 [] s = "SLOW_PATH_COOKIE_SENT"    -> 4
                 [] s = "SLOW_PATH_READY_NOTIFIED" -> 5
                 [] s = "SLOW_PATH_FETCHING"       -> 6

Forward(s, t) ==
    /\ PathRank(t) >= PathRank(s)
    /\ s \in {"SLOW_PATH_COOKIE_SENT", "SLOW_PATH_READY_NOTIFIED"}
           => t # "FAST_PATH"

(* The path is chosen once: no step goes back, no call that went on the    *)
(* slow path is ever moved to the fast path or the other way around.       *)
ReplyPathForward == [][\A w \in Works : Forward(rp[w], rp'[w])]_vars

(* The main loop always gets control back from a handler: it is not left   *)
(* waiting for a lock, a future, the tracker or the join of a thread.      *)
MainLoopLive == []<>(pc[Main] \in {"idle", "halt"})

(* A worker thread always comes back for more work, or exits: it is not    *)
(* left waiting for a lock or in the reply path tracker.                   *)
WorkersLive  == \A q \in Queues : []<>(pc[q] \in {"take", "exited"})

(* For a pure asynchronous method the DataAvailable signal "is always      *)
(* emitted when the work has been processed" (a failure has DataError).    *)
AlwaysNotified ==
    \A w \in Works : ModeOf[w] = "ALWAYS" =>
        (wstate[w] = "DONE" ~> avail[w] + derr[w] > 0)

(* The calls as their clients see them. *)
Phase(w) ==
    IF w \notin asked THEN "new"
    ELSE CASE reply[w] = "none"   -> "pending"
           [] reply[w] = "result" -> "answered"
           [] reply[w] = "error"  -> "refused"
           [] reply[w] = "cookie" -> IF got[w] = "result" THEN "fetched"
                                     ELSE IF got[w] = "bad" THEN "broken"
                                     ELSE IF avail[w] > 0 THEN "available"
                                     ELSE IF derr[w] > 0 THEN "failed"
                                     ELSE "cookie"

(* The works that cancelations in other queues can get at. *)
Disturbed == {w \in Interruptible : \E v \in Works : QueueOf[v] # QueueOf[w]}

Contract == INSTANCE RNF WITH Calls <- Works,
                              Refusable <- Disturbed,
                              phase <- [w \in Works |-> Phase(w)]

(* Work, work queue, cookie jar and tracker together implement the         *)
(* request/notify/fetch contract, where only the calls whose work can be   *)
(* interrupted on behalf of another queue may be refused.                  *)
ImplementsRNF == Contract!Spec
=============================================================================
