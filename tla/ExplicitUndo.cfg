\* One consumer: a bulk enqueue fails with one block injected already, and the
\* producer goes on with single ones.
CONSTANTS
  Consumers = {c1}
  Blocks = {b1, b2, b3}
  Null = Null
  BlockSize = 2
  MaxSubqueue = 8
  IndexSize = 4
  PutSizes = {1, 6}
  TakeSizes = {1}
  MaxElements = 7
  MaxTickets = 7
SPECIFICATION Spec
INVARIANT HalfDequeuedIsFound
\* No dequeue call starts at the bound MaxTickets.
CHECK_DEADLOCK FALSE
