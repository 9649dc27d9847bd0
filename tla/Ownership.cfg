\* Two queue objects, two tokens, a thread that enqueues without one.
CONSTANTS
  Queues = {q1, q2}
  Tokens = {t1, t2}
  Writers = {w1}
  MaxProducers = 3
  MaxTables = 2
  Nobody = Nobody
SPECIFICATION Spec
SYMMETRY Symmetry
INVARIANT OneUserPerProducer
INVARIANT TokensAgree
INVARIANT QueueKeepsItsOwn
