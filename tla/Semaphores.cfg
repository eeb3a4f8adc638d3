\* Three threads of three priorities, two permits, requests for one or two;
\* two resources in the pool.
CONSTANTS
  t1 = t1
  t2 = t2
  t3 = t3
  r1 = r1
  r2 = r2
  NoResource = NoResource
  Subjects = {"counting", "pool", "fair", "priority", "async"}
  Threads = {t1, t2, t3}
  TimedThreads = {t1, t2}
  Urgent = {t1}
  Relaxed = {t2}
  Priority <- MCPriority
  MaxPermits = 2
  Resources = {r1, r2}
SPECIFICATION MCSpec
\* When all permits are lost to timeouts, everybody waits for ever.
CHECK_DEADLOCK FALSE
INVARIANTS
  ResourceThere
  NoResourceShared
  NobodyForgotten
PROPERTIES
  OnlyTheseLose
  ServedInOrder
  EveryoneServed
