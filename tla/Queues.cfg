\* Two tasks put and three get; one of each passes a timeout.
CONSTANTS
  p1 = p1
  p2 = p2
  c1 = c1
  c2 = c2
  c3 = c3
  Producers = {p1, p2}
  Consumers = {c1, c2, c3}
  Timed = {p2, c2}
  Dedicated = {c1}
  Items = {1, 2}
  Capacity = 2
  MaxAccepted = 3
  Subjects = {"block", "raise", "drop_oldest", "drop_newest", "priority", "buffered",
              "unbounded", "enhanced", "synchronous", "broadcast"}
SPECIFICATION Spec
\* A call without timeout may wait for ever.
CHECK_DEADLOCK FALSE
INVARIANTS
  ItemsKept
  NobodyPassedOver
PROPERTIES
  OnlyThesePassOver
