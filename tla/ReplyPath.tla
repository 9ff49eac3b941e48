------------------------------ MODULE ReplyPath ------------------------------
(***************************************************************************)
(* DBusAsync::ReplyPathTracker (common/dbus_async_work.hh): the little     *)
(* state machine in every work item that decides whether a D-Bus method    *)
(* call is answered directly (fast path) or by a cookie followed by a      *)
(* DataAvailable or DataError signal (slow path).  The tracker is passive: *)
(* every member function is called with the work lock held, so each one is *)
(* a constant-level operator here.  A member function that reports a bug   *)
(* leaves the state alone; ...Ok tells the good calls from the bad ones.   *)
(***************************************************************************)

ReplyPaths == {"NONE", "SCHEDULED", "WAITING", "FAST_PATH",
               "SLOW_PATH_ENTERED", "SLOW_PATH_COOKIE_SENT",
               "SLOW_PATH_READY_NOTIFIED", "SLOW_PATH_FETCHING"}

TakePathResults == {"TAKEN", "ALREADY_ON_FAST_PATH", "COOKIE_NOT_ANNOUNCED_YET",
                    "COOKIE_ANNOUNCED", "READY_ANNOUNCED", "FETCHING",
                    "INVALID"}

(* What both try_take functions answer on a path that was taken earlier. *)
AlreadyTaken(s) ==
    CASE s = "NONE"                     -> "INVALID"
      [] s = "FAST_PATH"                -> "ALREADY_ON_FAST_PATH"
      [] s = "SLOW_PATH_ENTERED"        -> "COOKIE_NOT_ANNOUNCED_YET"
      [] s = "SLOW_PATH_COOKIE_SENT"    -> "COOKIE_ANNOUNCED"
      [] s = "SLOW_PATH_READY_NOTIFIED" -> "READY_ANNOUNCED"
      [] s = "SLOW_PATH_FETCHING"       -> "FETCHING"

(* try_take_fast_path() blocks on the condition variable in SCHEDULED,     *)
(* until another thread has set WAITING.                                   *)
(* Mutants: WAITING mistaken for an announced cookie; the result written   *)
(* back instead of the new state.                                          *)
FastPathResult_Announced(s) == IF s = "WAITING" THEN "COOKIE_ANNOUNCED"
                                                ELSE AlreadyTaken(s)
TakeFastPath_Result(s) == IF s = "WAITING" THEN "TAKEN" ELSE s

FastPathMustWait(s) == s = "SCHEDULED"
FastPathResult(s)   == IF s = "WAITING" THEN "TAKEN" ELSE AlreadyTaken(s)
TakeFastPath(s)     == IF s = "WAITING" THEN "FAST_PATH" ELSE s

SlowPathResult(s) == IF s \in {"SCHEDULED", "WAITING"} THEN "TAKEN"
                                                       ELSE AlreadyTaken(s)
TakeSlowPath(s) == IF s \in {"SCHEDULED", "WAITING"} THEN "SLOW_PATH_ENTERED"
                                                     ELSE s

SlowPathCookieSentOk(s) == s = "SLOW_PATH_ENTERED"
SlowPathCookieSent(s) ==
    IF SlowPathCookieSentOk(s) THEN "SLOW_PATH_COOKIE_SENT" ELSE s

SlowPathReadyNotifiedOk(s) == s = "SLOW_PATH_COOKIE_SENT"
SlowPathReadyNotified(s) ==
    IF SlowPathReadyNotifiedOk(s) THEN "SLOW_PATH_READY_NOTIFIED" ELSE s

(* Mutant: set_state() forgotten. *)
SetScheduled_Forgotten(s) == s

SetScheduledOk(s) == s = "NONE"
SetScheduled(s)   == IF SetScheduledOk(s) THEN "SCHEDULED" ELSE s

(* Mutants: a fetch starts the waiting all over; the first wait is lost.   *)
SetWaiting_Again(s) ==
    IF s \in {"SCHEDULED", "SLOW_PATH_COOKIE_SENT", "SLOW_PATH_READY_NOTIFIED"}
    THEN "WAITING" ELSE s
SetWaiting_Lost(s) ==
    IF s = "SLOW_PATH_READY_NOTIFIED" THEN "SLOW_PATH_FETCHING" ELSE s

SetWaitingOk(s) == s \in {"SCHEDULED", "SLOW_PATH_READY_NOTIFIED"}
SetWaiting(s) == CASE s = "SCHEDULED"                -> "WAITING"
                   [] s = "SLOW_PATH_READY_NOTIFIED" -> "SLOW_PATH_FETCHING"
                   [] OTHER                          -> s
=============================================================================
