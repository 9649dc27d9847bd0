\* One producer with a token and two consumers: the circle of two blocks and the
\* index go round, single and bulk calls.
CONSTANTS
  Consumers = {c1, c2}
  Blocks = {b1, b2}
  Null = Null
  BlockSize = 2
  MaxSubqueue = 4
  IndexSize = 2
  PutSizes = {1, 3}
  TakeSizes = {1, 3}
  MaxElements = 6
  MaxTickets = 4
SPECIFICATION Spec
SYMMETRY Symmetry
INVARIANT TypeOK
INVARIANT OnePlacePerBlock
INVARIANT DestructorIsExact
PROPERTY ImplementsFifo
\* No dequeue call starts at the bound MaxTickets.
CHECK_DEADLOCK FALSE
