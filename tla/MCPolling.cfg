CONSTANTS
  Main = Main  NoWork = NoWork  NoThread = NoThread
  w1 = w1  w2 = w2  w3 = w3  q1 = q1  q2 = q2
  Works <- TwoWorks
  Queues = {q1}
  QueueOf <- OneQueueOf
  ModeOf <- FastPathOf
  Interruptible <- TwoWorks
  MaxQueueLen = 1
  EarlyFetch = TRUE
SPECIFICATION FairSpec
PROPERTY MainLoopLive
CHECK_DEADLOCK FALSE
