\* Two consumers, and loads that may lag one increment behind (weak memory).
CONSTANTS
  Consumers = {c1, c2}
  Blocks = {b1, b2}
  Null = Null
  Garbage = Garbage
  BlockSize = 2
  MaxSubqueue = 2
  IndexCap = 2
  StaleWindow = 1
  MaxElements = 3
  MaxTickets = 4
SPECIFICATION Spec
SYMMETRY Symmetry
INVARIANT TypeOK
INVARIANT OnePlacePerBlock
INVARIANT HeadNeverPassesTail
INVARIANT SubqueueBound
PROPERTY ImplementsFifo
\* No dequeue call starts at the bound MaxTickets.
CHECK_DEADLOCK FALSE
