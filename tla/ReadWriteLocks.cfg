\* Four threads, two of which may write; half of each kind passes timeouts,
\* and the clients of the fair lock may nest a read lock in another one.
CONSTANTS
  t1 = t1
  t2 = t2
  t3 = t3
  t4 = t4
  NoThread = NoThread
  Threads = {t1, t2, t3, t4}
  Writers = {t1, t2}
  TimedReaders = {t3}
  TimedWriters = {t1}
  ContextUsers = {t3}
  MaxHolds = 2
  Locks = {"fair", "basic", "write_preferring", "upgradable"}
SPECIFICATION FairSpec
\* The basic lock may block its threads for ever, and so may a block of
\* upgrade_lock() that raised; a thread of the fair lock whose release raises
\* ends, and leaves the count wrong for ever.
CHECK_DEADLOCK FALSE
INVARIANTS
  CountsAgree
  NobodyForgotten
PROPERTIES
  ImplementsLock
  OnlyTheseAreForgotten
  EveryoneGetsIn
