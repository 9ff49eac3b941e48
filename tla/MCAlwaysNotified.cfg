CONSTANTS
  Main = Main  NoWork = NoWork  NoThread = NoThread
  w1 = w1  w2 = w2  w3 = w3  q1 = q1  q2 = q2
  Works <- TwoWorks
  Queues = {q1}
  QueueOf <- OneQueueOf
  ModeOf <- AlwaysModeOf
  Interruptible = {}
  MaxQueueLen = 0
  EarlyFetch = FALSE
SPECIFICATION FairSpec
PROPERTY AlwaysNotified
CHECK_DEADLOCK FALSE
