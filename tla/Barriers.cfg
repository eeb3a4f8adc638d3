\* A thread more than the barrier has parties, so that one can be early for
\* the next generation; a phaser of two that a third party joins.
CONSTANTS
  t1 = t1
  t2 = t2
  t3 = t3
  Subjects = {"barrier", "latch", "phaser"}
  Threads = {t1, t2, t3}
  TimedThreads = {t1}
  Parties = 2
  ActionMayFail = TRUE
  MaxGeneration = 3
  Waiters = {t1, t2, t3}
  TimedWaiters = {t1}
  InitialCount = 2
  Clients = {t1, t2, t3}
  Founders = {t1, t2}
  TimedClients = {t1}
  MaxPhase = 2
SPECIFICATION MCSpec
\* The bounds on generations and phases end every behaviour.
CHECK_DEADLOCK FALSE
INVARIANTS
  TypeOK
  CountIsWaiting
  SleepersBelong
  PassedTogether
PROPERTIES
  CountsDecide
  EveryoneReleased
