\* The queue as BackendServerHciTransport uses it: one thread pops (the writer),
\* that thread and another one (the reader) stop the queue, others push.
SPECIFICATION FairSpec
CONSTANTS
  Producers = {p1, p2}
  Consumers = {writer}
  Stoppers = {reader, writer}
  Items = {a, b}
  NoItem = NoItem
  MaxQueue = 2
INVARIANTS TypeOK NoStrandedItem StopWakesWaiter
PROPERTIES ImplementsStoppableQueue PopReturns
