\* One producer and two consumers at the queue; every thread at the others.
CONSTANTS
  t1 = t1
  t2 = t2
  t3 = t3
  Threads = {t1, t2, t3}
  Producers = {t3}
  Consumers = {t1, t2}
  Updaters = {t1, t2}
  Keys = {1, 2}
  MaxNodes = 3
  Subjects = {"stack", "queue", "map", "list"}
SPECIFICATION Spec
SYMMETRY Symmetry
CHECK_DEADLOCK FALSE
INVARIANTS
  EndsKept
  EntriesKept
PROPERTIES
  Linearizable
