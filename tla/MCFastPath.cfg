CONSTANTS
  Main = Main  NoWork = NoWork  NoThread = NoThread
  w1 = w1  w2 = w2  w3 = w3  q1 = q1  q2 = q2
  Works <- ThreeWorks
  Queues = {q1}
  QueueOf <- OneQueueOf
  ModeOf <- FastPathOf
  Interruptible <- ThreeWorks
  MaxQueueLen = 0
  EarlyFetch = FALSE
SPECIFICATION FairSpec
INVARIANT TypeOK
INVARIANT CookieBeforeSignal
INVARIANT SignalOnce
INVARIANT EveryCallAnswered
INVARIANT AvailableIsFetchable
INVARIANT NoBugReports
PROPERTY ReplyPathForward
PROPERTY InterruptedByPendingCancelOnly
PROPERTY MainLoopLive
PROPERTY WorkersLive
PROPERTY ImplementsRNF
CHECK_DEADLOCK FALSE
