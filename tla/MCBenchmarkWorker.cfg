CONSTANTS
  Threads = {t1, t2}
  NoThread = NoThread
  Daemons = {t2}
  Workers = {w1, w2}
  NoWorker = NoWorker
  MaxCalls = 2
SPECIFICATION FairSpec
CHECK_DEADLOCK FALSE
INVARIANTS OwnTime StaleOnlyByInterrupt NoStrayWorker
PROPERTIES CallReturns WorkersGone
