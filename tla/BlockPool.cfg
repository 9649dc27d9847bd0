\* Three threads contend for two blocks: pops, pushes and deferred pushes.
CONSTANTS
  Threads = {t1, t2, t3}
  PoolSize = 2
  Null = Null
SPECIFICATION Spec
VIEW LiveState
SYMMETRY Symmetry
INVARIANT OneOwner
INVARIANT RefsAreExact
INVARIANT SomeoneAddsIt
PROPERTY ImplementsPool
