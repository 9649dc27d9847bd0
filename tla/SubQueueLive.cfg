\* Two consumers disturb each other at will, until one of them is left alone; the one
\* block is used again and again.
CONSTANTS
  Consumers = {c1, c2}
  Blocks = {b1}
  Null = Null
  Garbage = Garbage
  BlockSize = 2
  MaxSubqueue = 2
  IndexCap = 2
  StaleWindow = 0
  MaxElements = 3
  MaxTickets = 5
SPECIFICATION FairSpec
PROPERTY EmptyMeansDrained
PROPERTY EmptiedBlockReturns
PROPERTY DeliveredToLoneConsumer
\* No dequeue call starts at the bound MaxTickets.
CHECK_DEADLOCK FALSE
