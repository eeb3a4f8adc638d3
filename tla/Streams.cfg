\* Channels of one item; three values from each source, two where they are
\* copied; one failing function; two observers and three emissions.
CONSTANTS
  Capacity = 1
  Length <- MCLength
  MaxFailures <- MCMaxFailures
  r1 = r1
  r2 = r2
  Requesters = {r1, r2}
  Room = 1
  MaxRequests = 3
  o1 = o1
  o2 = o2
  Observers = {o1, o2}
  Count = 2
  MaxEmitted = 3
  MaxTime = 4
  BatchSize = 2
  BufferSize = 2
  MaxItems = 4
  Small = 2
  MaxLength = 5
  MaxValue = 3
  MaxProcesses = 4
  Subjects = {"producer_consumer", "processes", "splitter_merger", "fan_out", "fan_in",
              "pipeline", "worker_pool", "pubsub", "requests", "loop",
              "plain", "map", "filter", "take", "skip", "throttle", "debounce", "merge",
              "merge_take", "iterable", "shared_iterator", "interval", "cold",
              "batch", "buffered", "processor", "algorithms"}
SPECIFICATION Spec
\* Streams end.
CHECK_DEADLOCK FALSE
INVARIANTS
  StreamsInOrder
  ResultsRight
PROPERTIES
  EverythingArrives
