\* Three tasks; two workers behind a queue for two tasks or signals, and a
\* pool that scales between one and two workers, with a place to spare.
\* The policy "abort" is modelled like "caller_runs".
CONSTANTS
  t1 = t1
  t2 = t2
  t3 = t3
  w1 = w1
  w2 = w2
  w3 = w3
  Sentinel = Sentinel
  Subjects = {"backpressure", "scaling"}
  Tasks = {t1, t2, t3}
  Fickle = {t1}
  Workers = {w1, w2}
  MaxQueueSize = 2
  Policies = {"caller_runs", "discard", "discard_oldest"}
  ScalingTasks = {t1, t2}
  Slots = {w1, w2, w3}
  CoreWorkers = 1
  MaxWorkers = 2
SPECIFICATION MCSpec
\* The pool may be shut down for good.
CHECK_DEADLOCK FALSE
INVARIANTS
  TasksKept
PROPERTIES
  TasksSettle
  PoolsShutDown
