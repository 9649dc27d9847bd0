\* One consumer with a token, others at work, producers that come while it dequeues.
CONSTANTS
  MaxProducers = 3
  Capacity = 1
  NonEmptyEnough = 2
  Quota = 2
  Span = 3
  BulkSizes = {2}
SPECIFICATION FairSpec
INVARIANT LessMeansAllChecked
PROPERTY NoProducerStarves
