\* rtlog's pipeline in a program: writers, the consumer thread, and main.
CONSTANTS
  Writers = {w1, w2}
  Capacity = 2
  NonEmptyEnough = 3
  MaxMessages = 3
  Nobody = Nobody
SPECIFICATION FairSpec
INVARIANT TypeOK
INVARIANT EveryMessageInOrder
INVARIANT StoppedFileIsComplete
INVARIANT ObjectsOutliveUsers
PROPERTY AcceptedIsWritten
PROPERTY StopReturns
\* The program ends.
CHECK_DEADLOCK FALSE
