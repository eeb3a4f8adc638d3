\* One producer and one consumer wait without a limit, the others pass a
\* timeout.  Two kinds of items show an exchange, a full buffer holds two.
CONSTANTS
  p1 = p1
  p2 = p2
  c1 = c1
  c2 = c2
  a = a
  b = b
  None = None
  Producers = {p1, p2}
  Consumers = {c1, c2}
  TimedCallers = {p2, c2}
  Items = {a, b}
  Capacity = 2
  MaxAccepted = 3
SPECIFICATION FairSpec
INVARIANTS
  TypeOK
  Fifo
  NoLostWakeup
PROPERTIES
  ImplementsChannel
  CallsReturn
