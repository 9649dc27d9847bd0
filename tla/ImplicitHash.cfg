\* Three threads log for the first time together; the table is enlarged twice.  Hashed
\* ids that collide in a table of 4 and probe past the end of one of 8.
CONSTANTS
  Threads = {t1, t2, t3}
  NoThread = NoThread
  InitialCapacity = 2
  HashedIds = {3, 7}
SPECIFICATION Spec
SYMMETRY Symmetry
INVARIANT TypeOK
INVARIANT FreeSlotInEveryTable
INVARIANT CountIsExact
INVARIANT LockIsHeld
INVARIANT EveryProducerListed
PROPERTY OneSubQueuePerThread
