\* Two producers at the queue.
CONSTANTS
  t1 = t1
  t2 = t2
  Threads = {t1, t2}
  Producers = {t1, t2}
  Consumers = {t2}
  Updaters = {}
  Keys = {1}
  MaxNodes = 2
  Subjects = {"queue"}
SPECIFICATION Spec
CHECK_DEADLOCK FALSE
INVARIANT NoItemLost
