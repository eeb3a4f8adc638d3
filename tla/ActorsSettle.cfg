\* The parts that must come to rest: the system, and a supervisor that
\* restarts two children one for one.
SPECIFICATION Spec
CONSTANTS
  Actors = {counter, forwarder}
  Callers = {c1}
  Answering = {counter, forwarder}
  Forwarders = {forwarder}
  Target = counter
  MaxMessages = 2
  MaxFailures = 1
  Subjects = {"system", "supervisor"}
  Receivers = {r1, r2}
  MailRoom = 2
  MaxMail = 4
  ChildIds = {"server", "task"}
  Policy <- MCPolicy
  Strategies = {"ONE_FOR_ONE"}
  MaxRestarts = 1
  RequestKinds = {"StartChild", "StopChild", "RestartChild"}
  MaxRequests = 3
  MaxDeaths = 2
  Peers = {p, q}
  MaxCalls = 3
  MaxQueue = 5
  FailureThreshold = 2
  SuccessThreshold = 2
  Steps = 3
PROPERTY ActorsSettle
\* At rest nothing moves.
CHECK_DEADLOCK FALSE
