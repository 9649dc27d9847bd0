\* Every interleaving of one producer and two consumers, single and bulk calls.
CONSTANTS
  Consumers = {c1, c2}
  Blocks = {b1, b2}
  Null = Null
  Garbage = Garbage
  BlockSize = 2
  MaxSubqueue = 4
  IndexCap = 2
  StaleWindow = 0
  MaxElements = 5
  MaxTickets = 5
  BulkSizes = {3}
SPECIFICATION BulkSpec
VIEW LiveState
SYMMETRY Symmetry
INVARIANT BulkAccessesAreSound
INVARIANT BulkOnePlacePerBlock
INVARIANT DestructorIsExact
INVARIANT AbortLeavesNoTrace
PROPERTY NeverOverwritten
PROPERTY BulkImplementsFifo
\* No dequeue call starts at the bound MaxTickets.
CHECK_DEADLOCK FALSE
