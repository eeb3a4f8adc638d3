CONSTANTS
  t1 = t1
  t2 = t2
  t3 = t3
  t4 = t4
  NoThread = NoThread
  Threads = {t1, t2}
  Writers = {t1}
  TimedReaders = {}
  TimedWriters = {}
  ContextUsers = {}
  MaxHolds = 1
  Locks = {"basic"}
SPECIFICATION Spec
CHECK_DEADLOCK FALSE
INVARIANTS
  BasicExclusion
