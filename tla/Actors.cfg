\* Two actors and a caller; a mailbox of two messages; three children; two
\* peers; a breaker and a saga.
SPECIFICATION Spec
CONSTANTS
  Actors = {counter, forwarder}
  Callers = {c1}
  Answering = {counter, forwarder}
  Forwarders = {forwarder}
  Target = counter
  MaxMessages = 2
  MaxFailures = 1
  Subjects = {"system", "mailbox", "supervisor", "peers", "breaker", "saga"}
  Receivers = {r1, r2}
  MailRoom = 2
  MaxMail = 4
  ChildIds = {"server", "task", "job"}
  Policy <- MCPolicy
  Strategies = {"ONE_FOR_ONE", "ONE_FOR_ALL", "ESCALATE"}
  MaxRestarts = 1
  RequestKinds = {"StartChild", "StopChild", "RestartChild"}
  MaxRequests = 3
  MaxDeaths = 2
  Peers = {p, q}
  MaxCalls = 3
  MaxQueue = 5
  FailureThreshold = 2
  SuccessThreshold = 2
  Steps = 3
INVARIANTS AnswersAreOwn MailIsKept FailuresContained
PROPERTY OnlyPolicyLoses
\* Actors stop, and what is counted by a bound ends.
CHECK_DEADLOCK FALSE
