# rtlog, specified

TLA+ specifications of [rtlog](../src/README.md), a logger for threads that must not block: a
log statement stores its arguments in a lock-free queue, and a consumer thread formats and
writes them.  The modules model the code in `src/include`; TLC checks them on small
instances, and TLAPS proves theorems about all those that model
the code, for every instance.

Almost everything that can go wrong in rtlog goes wrong in its queue,
`include/concurrentqueue.h` (cq.h below), a copy of moodycamel's queue.  The specifications
follow that code step by step: what rtlog uses of it, and its other public operations.

## The system

rtlog's sizes are in `Traits.hpp`: `BLOCK_SIZE` 32, `MAX_SUBQUEUE_SIZE` 64, `PARAM_SIZE` 16,
`BUFFER_SIZE` 1024; the queue's initial pool has 6 blocks (cq.h 729).  The build defines
`NDEBUG`, so the asserts of the queue are not compiled in: the invariants stand for them.

| Part | State | Operations | What is hard | Correct when |
|---|---|---|---|---|
| **Sub-queue of a thread** (`ImplicitProducer`, `ProducerBase`, `Block`; cq.h 1469-1690, 2340-2940) | four counters, a ring of block index entries, blocks with elements and a count of emptied cells | `enqueue`, `enqueue_bulk` by one thread, `dequeue`, `dequeue_bulk` by any, the destructor | consumers race on two counters with values loaded earlier; a failed enqueue rewinds an index consumers are reading, a failed bulk enqueue several of its entries; emptied blocks are reused at once | a bounded FIFO, each element to one consumer; no block lost or shared; the limit holds |
| **Sub-queue of a token** (`ExplicitProducer`; 1695-2334) | the same counters, a circle of blocks with flags, a circular index | the same | a block is used again as soon as it is empty, entries are overwritten under readers, a failed batch is undone | a bounded FIFO; the destructor destroys what waits, once |
| **Block pool** (`FreeList`, initial pool, `requisition_block`; 1340-1460, 2948-3017) | an index into the initial pool; a lock-free list with reference counts | take and give back a block, from any thread | ABA, a push left to the thread that drops the last reference, retries | a block has one owner; what is given back is not forgotten |
| **Implicit producer hash, producer list** (3130-3441) | a chain of hash tables from thread id to producer, a count, a resize lock, a linked list | `get_or_add_implicit_producer` | enlarging the table while other threads search; allocation failures after counting and under the lock | one sub-queue per thread, in the consumers' list; searches end; nobody waits for ever |
| **Front end, consumer tokens** (982-1203, 1307-1337) | per token: current and desired producer, a count, the global offset it last saw; the global offset | `try_dequeue`, `try_dequeue_non_interleaved`, `try_dequeue_bulk`, with and without a token | sizes are out of date, the traversal stops early, the list grows, rotations of other consumers | less than asked for means that every sub-queue was tried; no producer starves |
| **Queue objects, producer tokens** (600-700, 720-905, 3130-3300) | producers, hash tables and pool of each queue; pointers between tokens and producers | construct, move, swap and destroy queues; construct and destroy tokens | producers that were given up are caught by racing threads; moved tables are partly inside the object | a producer has one user; all that belongs to a queue follows it |
| **Logger and consumer** (`rtlog.hpp`, `Consumer.hpp`, `Singleton.hpp`) | level, stream, stop flag, thread, the instance | `write` and the `LOG_` macros; `consume`, `stop`; `initialize` and the end of the program | stopping while threads log; what is flushed when; refusals nobody looks at; destruction | the file has each thread's accepted messages in order; `stop` returns; nothing destroyed is used |
| **Message** (`_write`, `Argument`, `Formatter`) | 16 argument slots with an end marker; the formatter's buffer | `write` (two overloads), `format` | the number of pieces; a formatter used again and again; an argument array without an end; a buffer that is too small | the text is that of the whole statement, or none |
| **Thread id lookup** | an offset into the thread descriptor | `pthread_gettid_np` | static initialisation | not modelled |

How they interact.  A `LOG_` macro calls `CLogger::write` in the application's thread; it
fills an argument array and moves it into the queue with `try_enqueue`.  The queue looks the
thread up in the hash (the first time it creates a sub-queue and puts it in the producer
list) and calls that sub-queue's `enqueue`, which may take a block from the pool.  The
consumer thread calls `try_dequeue` until it returns false, which looks at sub-queues in the
list and calls `dequeue`; whoever dequeues the last element of a block gives the block back
to the pool.  All these meet in shared memory, without a lock (but for the resize lock of
the hash).  rtlog itself uses neither tokens nor bulk operations.

## Modules

| Module | Models | Uses |
|---|---|---|
| `Fifo` | what a sub-queue promises: a bounded FIFO with several takers, one or several elements at a time | |
| `SubQueue` | `ImplicitProducer`: `enqueue`, `dequeue`, the destructor | implements `Fifo` (`ImplementsFifo`) |
| `SubQueueBulk` | `ImplicitProducer::enqueue_bulk` and `dequeue_bulk`, in any mixture with the single calls | extends `SubQueue`; implements `Fifo` (`BulkImplementsFifo`) |
| `SubQueueProofs` | the theorems about `SubQueue`: its counters and limits, its blocks, the refinement of `Fifo` | `SubQueue`, `TLAPS` |
| `SubQueueBulkProofs` | the theorems about `SubQueueBulk`: its counters and limits, its blocks, the refinement of `Fifo` | `SubQueueBulk`, `SubQueueProofs` |
| `ExplicitQueue` | `ExplicitProducer`: single and bulk calls, the destructor | implements `Fifo` |
| `ExplicitQueueProofs` | the theorems about `ExplicitQueue`, the refinement of `Fifo` among them | `ExplicitQueue`, `TLAPS` |
| `Pool` | what the pool promises to the sub-queues | |
| `BlockPool` | `try_get`, `add`, `add_knowing_refcount_is_zero`, the initial pool | implements `Pool` |
| `BlockPoolProofs` | the theorems about `BlockPool`, the refinement of `Pool` among them | `BlockPool`, `TLAPS` |
| `ImplicitHash` | `get_or_add_implicit_producer`, `add_producer` | |
| `ImplicitHashProofs` | the theorems about `ImplicitHash` | `ImplicitHash`, `TLAPS` |
| `FrontEnd` | all the dequeue operations of the queue, `ConsumerToken` and its rotation | a sub-queue is the number of elements that wait |
| `FrontEndProofs` | the theorems about `FrontEnd` | `FrontEnd`, `TLAPS` |
| `Ownership` | queue objects: constructors, move, swap, destructor; `ProducerToken`, `recycle_or_create_producer` | |
| `OwnershipProofs` | the theorems about `Ownership` | `Ownership`, `TLAPS` |
| `LogPipeline` | `write`, `try_dequeue`, `consume`, `stop`, and the program around them | a sub-queue is a sequence: what `Fifo` promises |
| `Message` | both overloads of `write`, `format` | |
| `LoggerProofs` | the theorems about `LogPipeline` and `Message` | `LogPipeline`, `Message`, `TLAPS` |
| `MC*` | symmetry sets and views for TLC | the module they are named after |

So the system is checked in layers: `SubQueue` over the pool as `Pool` describes it
(`pool`, `freeing`, `other` are its `free`, `returning`, `used`) implements `Fifo`;
`BlockPool` implements `Pool`; `LogPipeline` and `FrontEnd` build on sub-queues that are FIFOs
and on `ImplicitHash`'s promise that a thread's sub-queue is unique and listed.

### From code to model

*One step per access to shared memory.*  In `SubQueue`, `SubQueueBulk`, `ExplicitQueue`,
`BlockPool` and `ImplicitHash` a step is one load, store or read-modify-write of memory that
other threads access at that time, and the private work between two such accesses.  `ppc` is
the producer's place in its call, `pc[c]` a consumer's; the record variables hold the
locals a call still needs (`batch` and `grab` those of the bulk calls) and are reset when it
returns.

*Single and bulk.*  `SubQueueBulk` adds the bulk calls as actions of their own to those of
`SubQueue`, since they share only the shape of their beginning.  In `ExplicitQueue` both
kinds run through the same places and a single call is one for a batch of one; where
the code of the two differs the actions say so.

*Relaxed loads.*  A load of a counter with `memory_order_relaxed` may return an old value:
`Recent(x)` is any of the last `StaleWindow` values (counters only grow), and a call that loads
the tail a second time sees none older than the first (`RecentSince`: coherence).  With
`StaleWindow > 0` the relaxed loads that guard slot reuse and the free list's head may also
show what was there before.  Read-modify-writes act on the newest value, and values published
by a release store that was acquired are visible.  An acquire load of the index tail
is not modelled as stale, and `ExplicitQueue` has no stale values.

*Sizes.*  Unbounded integers stand for the 64-bit indices: `circular_less_than` is `<`.
Wrapping around takes 2^64 messages of one thread and is not modelled.  The 32-bit offsets of
the consumer tokens do wrap, modulo `Span`.

*Uninitialised memory.*  `new_block_index` leaves the values of its entries uninitialised;
they begin as `Null` or `Garbage`, chosen freely.

*Sub-queue and pool.*  Any block of `pool` may be obtained, a block given back is in
`freeing` for a while (its push may be left to another thread), and other sub-queues
take and return blocks at any time.

*The hash.*  A key goes from empty to an id once and never changes, so probing a slot and the
compare-exchange that takes it are one step each.  Only a thread itself writes its id.  The
producer of an ended thread is never used again in this copy:
`MOODYCAMEL_CPP11_THREAD_LOCAL_SUPPORTED` is not defined anywhere.

*The front end.*  `FrontEnd` follows one consumer with at most one token.  All the others are
what it can see of them: elements that disappear, an offset that moves on, and dequeues that
fail because their tickets are pending (`Obtainable` says how much a dequeue may find while
`rivals` are at work, and that it finds all there is when they are not).  Producers
are numbered as they are linked, and one is counted before it is linked, as in the code.

*Queues and tokens.*  In `Ownership` the constructors and destructors of tokens run one shared
access at a time; the operations on whole queues are one step each, taken when no token is
being constructed or destroyed (`Quiet`): cq.h documents them as not thread-safe.

*The pipeline.*  `Register` stands for the whole of `get_or_add_implicit_producer` (its steps
are `ImplicitHash`'s), `TryBest` and its fall-back for `dequeue`.  Refusals (`Refuse`) may
happen at any time: the pool is shared with threads the model does not have.  `file` is what
was flushed, `stream` what was not.  The main thread (`mpc`) initialises the logger, constructs
the consumer, calls `stop`, waits for the writers and lets the objects go out of
existence, in the order of `example1.cpp` and `Singleton.hpp`; writers may log until main
returns.

*The message.*  The text of a value is the value; `BUFFER_SIZE` counts values and spaces.  fmt's
writer throws when its buffer would have to grow, which nothing catches: `WriterThrows`.

## What is checked

`tlc -workers 2 -config X.cfg M` in this directory, with the module given here.  Ten runs
pass, and two show a disagreement between code and comments (below).

| Run (cfg, module) | Question | Bounds | States |
|---|---|---|---|
| `SubQueueBulk` (`MCSubQueueBulk`) | single and bulk calls mixed: `BulkImplementsFifo`; every access finds the right block (`BulkAccessesAreSound`); a block is in one place (`BulkOnePlacePerBlock`); a failed single or bulk enqueue leaves no trace in the index (`AbortLeavesNoTrace`); no unread element is overwritten (`NeverOverwritten`); the destructor is exact (`DestructorIsExact`) | 2 consumers, 2 blocks of 2, index of 2 slots, 5 messages, 5 tickets, batches of 3 | 1.1 M |
| `SubQueueRelaxed` (`MCSubQueue`) | with old values: `TypeOK`, `OnePlacePerBlock`, `HeadNeverPassesTail`, `SubqueueBound`, `ImplementsFifo` | 2 consumers, `StaleWindow` 1, limit 2, 3 messages, 4 tickets | 1.6 M |
| `SubQueueLive` (`MCSubQueue`) | after any disturbance by another one, a consumer left alone gets everything (`DeliveredToLoneConsumer`); "empty" means drained unless somebody interferes (`EmptyMeansDrained`); emptied blocks return (`EmptiedBlockReturns`) | 2 consumers, 1 block, 3 messages, 5 tickets | 46 k |
| `BlockPool` (`MCBlockPool`) | `ImplementsPool`; one owner per block (`OneOwner`), exact reference counts (`RefsAreExact`), no block given back is forgotten (`SomeoneAddsIt`) | 3 threads, 2 blocks | 0.1 M |
| `ImplicitHash` (`MCImplicitHash`) | one sub-queue per thread (`OneSubQueuePerThread`), listed (`EveryProducerListed`); searches end (`FreeSlotInEveryTable`); failures undo the count and the lock (`CountIsExact`, `LockIsHeld`) | 3 threads, initial table of 2, colliding ids | 0.7 M |
| `ExplicitQueue` (`MCExplicitQueue`) | `ImplementsFifo`, `OnePlacePerBlock`, `DestructorIsExact` for producers with a token, single and bulk | 2 consumers, 2 blocks of 2, index of 2, 6 messages, batches of 3, 4 tickets | 1.2 M |
| `LogPipeline` (`LogPipeline`) | no message is lost, doubled or overtaken (`EveryMessageInOrder`); what the file holds when `stop` returns (`StoppedFileIsComplete`); nothing is used after its destruction (`ObjectsOutliveUsers`); accepted messages are written (`AcceptedIsWritten`); `stop` returns (`StopReturns`) | 2 writers, 3 messages each, 2 per sub-queue | 0.3 M |
| `Message` (`Message`) | the text is that of the whole statement or none, and only one that is too long ends the process (`WholeMessages`) | 8 slots, a buffer of 14, both overloads, two values | 0.2 M |
| `FrontEnd` (`FrontEnd`) | a call that returns less than it was asked for has tried every producer that was listed as it began (`LessMeansAllChecked`); with a token, no producer starves (`NoProducerStarves`) | 3 producers of 1 element, quota 2, offsets modulo 3, batches of 2 | 0.9 M |
| `Ownership` (`MCOwnership`) | a producer has one user (`OneUserPerProducer`); tokens and producers know each other (`TokensAgree`); everything that belongs to a queue follows it through moves and swaps (`QueueKeepsItsOwn`) | 2 queues, 2 tokens, 1 thread without one, 3 producers, 2 tables | 1.1 M |
| `MessageTimed` (`Message`) | **violated**: `EnoughRoom` | 7 slots | 124 |
| `ExplicitUndo` (`MCExplicitQueue`) | **violated**: `HalfDequeuedIsFound` | 1 consumer, 3 blocks of 2, index of 4, 7 messages, batches of 6 | 20 k |

Why the bounds are enough.  Two elements per block give a first and a last cell, and two
consumers empty a block out of order; two blocks and a ring of two slots make every block and
slot be used again; more messages than the limit make the producer meet it.  A batch of 3
spans two blocks, from the middle of one or from the start of the other, and fails with
none or one of them added.  Two consumers are enough to give up tickets and to decide one with
an overcommit that is out of date.  A table of two slots is enlarged twice by three threads,
as one of 32 is by 16 and by more.  Three threads on two blocks give an owner, one with an
old head and one that pushes.  Three producers give the front end one before, one at and
one behind the place where a traversal starts, and offsets modulo 3 wrap soon.  Two tokens
race for one producer, a third producer is the thread's without one; two queues are
swapped, moved to and fro and destroyed with either's tables.  `MaxTickets` stops calls from
starting, not calls that run; runs where this ends everything say `CHECK_DEADLOCK FALSE`, as
do the pipeline, where the program ends, and `Message`, where the process may.  Views leave
out history variables and locals that no step reads any more.

Faulty variants (`Bug...`) sit before the definition they vary: a dropped guard, an
off-by-one, a missing reset.  PROJECT.json says for each property which variant breaks it.

Further invariants are defined and hold, but no run needs them: the type invariants
`BulkTypeOK` of `SubQueueBulk` and `TypeOK` of `BlockPool`, `FrontEnd` and `Ownership`,
`BlockPool`'s `ListEnds`, and the inductive invariants the proofs are about: `TicketInv`,
`RoomInv` and `LayoutInv` of `SubQueue`, `BulkTicketInv`, `BulkRoomInv`, `BulkLayoutInv`
and `BulkElementsInv` of `SubQueueBulk`, `TicketInv` and `LayoutInv` of `ExplicitQueue`, `PoolInv`, `HashInv`, `PipelineInv`, `FrontEndInv`,
`OwnershipInv` and `LoopInv`.  TLC finds each of these true on the instances of the table above, and
`LayoutInv` also with three blocks of two elements, an index of two slots and five messages,
where the pool can outlast the index.

### Fairness

- A thread inside `enqueue`, `dequeue`, `write` or `stop` is scheduled again until the call
  returns (weak fairness of its steps; in `FrontEnd` of `InsideCall`).  No call is ever forced
  to start, except
- the consumer thread's `try_dequeue`: rtlog's thread calls it in a loop (`Consumer.hpp`
  71-82), so `LogPipeline` has weak fairness of all the consumer's steps.  Elsewhere
  "a consumer that keeps polling" is a premise of the property
  (`DeliveredToLoneConsumer`, `NoProducerStarves`).
- `Settle`: a block on its way to the free list arrives.  The list is lock-free and not
  wait-free: a push can be beaten again and again by threads that take blocks.  This is the
  one fairness assumption the code gives no absolute guarantee for; it holds as soon as
  the other threads pause.  `SomeoneAddsIt` shows the part that is safety.

### Disagreements found

- **One slot too few for a statement with a time point** (`rtlog.hpp` 89, run
  `MessageTimed`).  The overload of `write` with a time point has a `static_assert` with `<=`
  and subtracts 4 + 1 pieces, but stores five pieces of its own, the arguments and the end
  marker.  The longest statement it accepts is written past the end of the array.  The other
  overload uses `<` and is exact.
- **A failed bulk enqueue with a token leaves blocks the destructor does not know**
  (cq.h 2024 and 2039 against the assertion at 1729, run `ExplicitUndo`).
  `ExplicitProducer::enqueue_bulk` keeps the blocks it has put into the circle when it fails, but
  restores `pr_blockIndexSlotsUsed`, so they are never counted; later enqueues use them
  without counting either.  The destructor begins its search for the half-dequeued block that
  many entries back, which is behind the head's.  A failed call that only used blocks again
  counts right, but has overwritten the oldest entries with bases beyond the head, where the search then
  stops.  `DestructorIsExact` of `ExplicitQueue` is about the states without either.  rtlog uses
  no tokens and is not affected.

### What else the models show

- `MAX_SUBQUEUE_SIZE` does not bound a token's sub-queue, although the comment at cq.h 313
  says so: the limit is tested when a block is added (1805), but not when an empty one is used
  again (1788), and a block added while a consumer is inside `dequeue` enlarges the circle for
  good.  `ExplicitQueue` has `SubqueueBound` for those who want to see it fail (1
  consumer, 3 blocks of 2, an index and a limit of 4, single calls, 12 messages and tickets).
  For a thread's sub-queue the limit is proved.
- The rotation of tokens happens when the count of a single dequeue equals the quota (1116).
  A bulk dequeue that finds less than it wanted counts without that test, and the single ones
  after it may step beyond the quota and never rotate.  `NoProducerStarves` is therefore about
  single dequeues, and not what the comment at 1102 says of all.
- Without a token, three busy threads that came later can keep the messages of an older one
  waiting for ever: the traversal begins at the newest and looks for the best of three.
- Two consumers that poll together can make each other give up tickets for ever while an
  element waits.  One that is left alone gets it (`DeliveredToLoneConsumer`), and rtlog's lone
  consumer never gives up.  With several consumers `try_dequeue` may return false although the
  queue was never empty; its comment (1036) says as much.
- `dequeue_bulk` asked for no element does not return at once when it believes that
  elements wait (2715): it looks up the block at the head, which others may have emptied.
- `stop` leaves messages in the queue that were accepted after the consumer's last empty
  `try_dequeue`, even if before the call of `stop`.  `StoppedFileIsComplete` is the strongest
  statement that holds.  They are destroyed with the queue.
- `consume`'s inner loop does not look at the flag: `stop` only returns because the writers
  of the model pause (`StopReturns`).
- A refused message leaves no trace: the macros ignore `write`'s result.  A message longer
  than `BUFFER_SIZE` ends the process.
- The overload of `write` with a time point has no level test, so with `USE_TIMEPOINT`
  `setLevel` has no effect.

## What is proved

`tlapm M.tla` for the modules whose names end in `Proofs`.  The theorems hold for all
numbers of threads, producers, blocks and messages and for all sizes; each section names the
assumptions on the constants.  Every one follows the same argument: an invariant that is
inductive, `Init => Inv` and `Inv /\ [Next]_vars => Inv'`, with one step per action, and the
property as a consequence of it.

**`SubQueueProofs`** (`SizeAssumption` and `PointerAssumption`; the code asks for powers of two
above one, less is needed; any `StaleWindow`)

- `TypeCorrect`: `Spec => []TypeOK`.
- `TicketsCorrect`: `Spec => []TicketInv`, and from it `ClaimsNeverPassTail`:
  `Spec => []HeadNeverPassesTail`.  "No more claims than elements" is not inductive: a claim is
  made on the strength of a ticket decided earlier, with a still older overcommit.  `TicketInv`
  says that `headIndex` and `dequeueOvercommit` count the tickets won and lost
  (`TicketsCounted`), that pending tickets are distinct and neither (`PendingTickets`), that
  the overcommit a ticket is decided with counts only tickets lost before it
  (`OvercommitIsPast`), and that a winner leaves room below the tail for all earlier tickets
  that were not lost (`Wins`).  The last winner then bounds the number of winners: they and
  the tickets lost before it are distinct numbers up to it (lemma `WinnersAreFew`).
- `RoomCorrect`: `Spec => []RoomInv`, and from it `LimitKept`: `Spec => []SubqueueBound`.  The
  limit is tested once per block, with an old head index; `RoomInv` says what this has
  established at each step of `enqueue`, and that a tail in the middle of a block has the rest
  of the block in reserve.

and, about the blocks (any number of them)

- `LayoutCorrect`: `Spec => []LayoutInv`.  None of `OnePlacePerBlock`, `NeverOverwritten` and
  `DestructorIsExact` is inductive: each is about what a consumer does that stopped long ago,
  with a block it has yet to look up.  `LayoutInv` gives every index a fixed place: its slot in
  the ring (`SlotAt`) and its cell.  Its parts say
  - `RingRight`: the slot of every index that is not yet emptied (`IsEmptied`) has the key of its block, and
    a block linked; a block stays linked until all its indices are emptied and the consumer
    that emptied the last has unlinked it, and no longer;
  - `EnqueueRight`: the slot that `enqueue` is about to give a new block is its own and has none;
  - `ClaimRight`: consumers hold different indices; each finds the slot of its own, and only
    one has emptied a block;
  - `ContentsRight`: a cell has its element exactly while it is `Stored`, and the count of a
    block is the number of its indices emptied;
  - `PlacesRight`: no block is linked twice, and the places a block can be in exclude each other.

  The look-up computes a distance with an unsigned difference of bases, divides by the block
  size and adds it modulo the capacity of the index; that this hits `SlotAt`, with a tail that
  is out of date, is arithmetic that `SlotFound` does once for all.
- From it, `BlocksInOnePlace` (`Spec => []OnePlacePerBlock`), `DestructorCorrect`
  (`Spec => []DestructorIsExact`) and `ElementsKept` (`Spec => NeverOverwritten`).
- `SubQueueIsFifo`: `Spec => ImplementsFifo`.  The step of `enqueue` that publishes the tail is
  `Put` of one element, the claim of an index is `Take`, the last step of `dequeue` is `Return`, and
  every other step changes nothing that `Fifo` sees.
- `FalseMeansDrained`: `Spec => EmptyMeansDrained`, for loads as stale as may be.  `DrainInv` adds to
  `TicketInv` that every ticket taken is pending, won or lost.  If nobody else has a pending one
  and the overcommit is still the one that was loaded, then counting gives the head.  A
  ticket that was given up was not below the tail the call began with, because the tail
  loaded later is no older.

**`SubQueueBulkProofs`** (the assumptions of `SubQueueProofs`, and `BulkAssumption`: bulk calls
for at least one element)

- `BulkTypesCorrect` (`BulkTypeOK`) and `BulkClaimsNeverPassTail` (`HeadNeverPassesTail`).
  `BulkTicketInv` is `TicketInv` for calls that take several tickets at once: those a call holds
  are an interval, it wins the first of them and gives up the rest, and what is
  left below the tail bounds how many win.
- `BulkLimitKept` (`SubqueueBound`) from `BulkRoomInv`.  A bulk call tests the room for each of
  its blocks with another old head index, before the elements that will be in the ones before
  exist.
- `BulkAccessesSound`, `BulkBlocksInOnePlace`, `AbortsLeaveNoTrace` from `BulkLayoutInv`.
  `LayoutInv` of `SubQueue` ties blocks to the indices that have one, which ends at the tail; a
  batch has blocks in the index for elements that do not exist yet, and takes
  them out again from the first to the last while the tail of the index goes back.  So
  `BulkLayoutInv` is about the blocks themselves, numbered as they come into use: `Filled`
  of them have elements, `Top` are in the index, the tail of the index is `Shift` slots before
  or behind the last, and block p is at slot `Place(p)`.  A block is `Needed` while one of its
  indices is not emptied and it was not undone.  Its parts say
  - `NeededLinked`, `LinkedNeeded`: what is needed is linked at its place with its key, and
    nothing else is, but for a block that some consumer is about to unlink;
  - `KeysInPlace`, `LastKeyKept`: a key that was abandoned belongs to its slot all the same, so
    that a consumer who counts from it finds the right slot; and the chain of a batch
    does not come round to the last key before it while anything is linked;
  - `ChainInPlace`, `TailRight`: the chain of a batch is what the index has, and the tail block
    is the last one, or the one that undoing goes back to;
  - `BatchRight`, `SlotsRight`: what each step of an enqueue has established;
  - `BulkClaimRight`: how far each consumer has come with its own indices, which no other has;
  - `CountsRight`, `BulkPlacesRight`: a block's count is that of its emptied cells, and the
    places a block can be in exclude each other.

  Undoing looks each block up while it moves the index's tail back, so that the key it counts
  from is another one each time; that it hits the slot of the next block of the chain is
  `NextUndone`.
- `BulkDestructorExact` (`DestructorIsExact`) and `BulkNeverOverwrites` (`NeverOverwritten`) from
  `BulkElementsInv`, which says what each cell holds: the element of its index from
  when it is written, for a batch before the tail shows it, until the call that claimed
  it moves it out (`BulkStored`), and nothing else; and that what a bulk call moved out so far is
  what it claimed, from the first on.  The destructor walks the indices from head to tail; no
  consumer then holds a claim, and no block that is linked is needed for anything else.
- `BulkIsFifo`: `BulkSpec => BulkImplementsFifo`.  What a consumer holds is the run of indices of
  its claim from then until it returns (`BulkHeldRight`), however far it has come.  A
  bulk claim is one `Take` of as many messages as it won tickets, the step that publishes
  a batch is one `Put` of them all, freeing the last block of a claim is the `Return`, and every
  other step leaves `Fifo`'s variables as they are.

**`ExplicitQueueProofs`** (`SizeAssumption`, `PointerAssumption` and `IndexAssumption`: blocks
and an index of at least two, the index with an entry for every block, as its constructor
makes it, calls for at least one element; any number of consumers, any limit of whole blocks)

- `ExplicitInvariant`: `Spec => [](TypeOK /\ TicketInv /\ LayoutInv)`, and from it `ExplicitTypes`
  (`TypeOK`) and `ExplicitPlaces` (`OnePlacePerBlock`).  `TicketInv` is about calls that take several
  tickets at once and win some of them: it counts the tickets, and has a number `n` below which
  every pending ticket can still win (`Winnable`).

  `LayoutInv` needs names for blocks that the code does not have.  Elements are numbered as
  they are put, so that an element's block is number `Pos(i)`, and the producer uses blocks in
  the order of these numbers; `At(p)` is the block with number p, `Latest` the last one obtained,
  ahead of the tail during a call, and a block is in use (`Live`) from when it was obtained until it
  and all before it have no index that is `NotEmptied`.  Its parts say
  - `ClaimRight`: the indices that consumers have claimed do not overlap, and how far each has
    come with its own;
  - `BatchRight`: what a call of `enqueue_bulk` has established at each of its steps, including
    that it has obtained no more blocks than it needs;
  - `CircleRight`: `next` is a bijection of this producer's blocks, and no proper part is closed
    under it: they are one circle;
  - `SlotsRight`, `BasesRight`: where the producer is in the index; an entry that was ever
    written has a base that belongs there, even if a consumer reads it late;
  - `RingRight`: blocks in use are different, follow each other in the circle and are in the
    index with their own base;
  - `FlagsRight`, `ContentsRight`: the flags of a block in use are those of its emptied cells, all
    other blocks are marked empty, and a cell has an element exactly while it is `Present`.

  A consumer finds its entry by counting back from the entry of a front that is out of date
  (lemma `CountsBack`).  The producer may use the next block of the circle again when all its
  flags are set: that it is then not one of those in use (`ReusedIsFree`) is the step where
  circle, flags and index come together: every block in use but the first follows another
  one in use, so that in a circle only the first can follow the tail, and the first has a flag
  that is not set or is the first this call has obtained, which the code tests.  What the
  bulk call resets before it writes is the chain of blocks from the first to the tail, and
  that this is what it obtained is `ChainAt`.
- `ExplicitDestructor`: `Spec => []DestructorIsExact`.  Its hypotheses, that every block is in the
  index and the half emptied one is found, can fail after a bulk call that was undone: that
  is what the run `ExplicitUndo` shows.  A block that is not in the index
  is harmless everywhere else.
- `ExplicitIsFifo`: `Spec => ImplementsFifo`.  Publishing the tail is `Put` of all elements of the
  call, a claim is `Take` of a run of them, and the last step of a call is `Return`.  The bound
  of the FIFO is what the circle can hold, because `MAX_SUBQUEUE_SIZE` is not a bound here.

**`BlockPoolProofs`** (any `Blocks`, any initial pool; `Threads` finite: references are counted)

- `PoolInvariant`: `Spec => []PoolInv`, and from it `PoolTypes` (`TypeOK`), `FreeListEnds`
  (`ListEnds`: following `freeListNext` from the head ends, so no traversal runs in a circle),
  `OneOwnerPerBlock` (`OneOwner`), `ExactRefs` (`RefsAreExact`) and `NoBlockForgotten`
  (`SomeoneAddsIt`).  None of these is inductive alone.  What makes `try_get`'s
  compare-exchange safe from ABA is that the block it has a reference to cannot be pushed a
  second time: only the one who brings the count to zero pushes it, and whoever holds a
  reference keeps it above zero.  So `PoolInv` has to account for every reference (one per
  thread at certain places, one for the list, and what is added and taken away between), say
  that the `freeListNext` a thread has read is still that of the block it is about to take off
  (`LocalsAreRight`), and say for each block who would push it.
- `PoolIsImplemented`: `Spec => ImplementsPool`.  Each step of `BlockPool` is one of `Pool` or
  leaves `free`, `returning` and `used` as they are.

**`ImplicitHashProofs`** (any hash values and initial capacity; `Threads` finite: they are
counted)

- `HashInvariant`: `Spec => []HashInv`, and from it `HashTypes` (`TypeOK`), `CountStaysExact`
  (`CountIsExact`), `ResizeLockIsHeld` (`LockIsHeld`), `NoProducerLost`
  (`EveryProducerListed`), `SearchesEnd` (`FreeSlotInEveryTable`) and `OneSubQueueEach`
  (`OneSubQueuePerThread`).  The count goes up before anything is stored and down again if an
  allocation fails, and a table that is about to be replaced is still being filled by the
  threads that counted early.  `HashInv` therefore counts
  who may come to need a place in a table, by the count each thread was given
  (`RoomReserved`).  That a table with fewer ids than slots has an empty slot is the
  pigeonhole principle.
  `TablesRight`, `LocalsRight` and `OwnersApart` say that a table's entries are owned by one
  thread each and that the owner's entry is found again by every later search.

**`LoggerProofs`, about `LogPipeline`** (any number of writers and messages, any `Capacity`)

- `PipelineInvariant`: `Spec => []PipelineInv`, and from it `PipelineTypes` (`TypeOK`),
  `MessagesInOrder` (`EveryMessageInOrder`), `StoppedFileComplete` (`StoppedFileIsComplete`)
  and `ObjectsOutlive` (`ObjectsOutliveUsers`).  What needs the invariant is the end: the
  consumer leaves its loop because a traversal found nothing, and a traversal is many steps
  during which writers write.  `ScanMissesNothing` says which messages a traversal may pass by.
  The theorems are about the specification without fairness, and so hold of `FairSpec`.

**`FrontEndProofs`** (any number of producers, any quota, any `Span`)

- `FrontEndInvariant`: `Spec => []FrontEndInv`, and from it `FrontEndTypes` (`TypeOK`) and
  `LessOnlyAfterAll` (`Spec => []LessMeansAllChecked`): a call that returns less than it was
  asked for has tried every producer that was in the list as it began.  A traversal with a token
  starts anywhere in a circular list that grows while it goes round; `WayChecked` says that
  what lies between the start and the present place has been tried, where "between" is the
  circular interval `Round`.

**`OwnershipProofs`** (any sets of queues, tokens and writers, any number of tables;
`MaxProducers` makes the lists finite, as counts need)

- `OwnershipInvariant`: `Spec => []OwnershipInv`, and from it `OwnershipTypes` (`TypeOK`),
  `OneUser` (`OneUserPerProducer`), `TokensAndProducersAgree` (`TokensAgree`) and `OwnStays`
  (`QueueKeepsItsOwn`).  `OwnershipInv` says
  - `TokenRight`: what a token has at each step of its constructor and destructor.  A producer
    that is about to be linked is in no list, one that was caught is no other token's;
  - `ProducersRight`: a producer that knows a token is known by it;
  - `ListRight`: a producer is in one list, once; counts are ahead of the lists by the
    producers about to be linked;
  - `TablesRight`: the chains of tables are apart, each ends in the table inside its own queue
    object, no entry is outside them, and a chain's entries are the producers without a token.

  A chain is what every set has that has its first table and, with a table, the one behind it
  (`Reached`); by this a chain is known to stay the same when pointers outside it change
  (lemma `ReachedSame`).  The step that needs most is `swap_implicit_producer_hashes`: the
  tables inside two queue objects change places in the chains and their entries change
  places too (`ReachedRedirected`, `SwapTables`).  The move constructor is an exchange with a
  queue that has nothing, so lemma `ExchangeKeeps` covers it as well.

**`LoggerProofs`, about `Message`** (any sizes of the array and the buffer, any arguments)

- `MessagesAreWhole`: `MessageSpec => []WholeMessages`.  `LoopInv` says what the array holds after n
  calls of `_write` (`Saved`) and what the buffer holds when `format` is at an element
  (`TextOfFirst`); entries beyond belong to the statement before, and the end marker is what
  keeps `format` from them.
- `PlainStaysInside`: without a time point nothing is written past the array, so that
  `EnoughRoom`, which the run `MessageTimed` refutes, fails for the other overload only.

`FlattenSeq` is recursive, and what it computes for every sequence takes induction.  The
library's induction theorems have an operator as a parameter, which the provers cannot
instantiate; `LeastElement` has a set instead: the set of numbers at which a claim fails, if it
is not empty, has a least element (`NatLessThanWellFounded`, `WFMin`).

Only model-checked, because out of the prover's reach: liveness
(`DeliveredToLoneConsumer`, `EmptiedBlockReturns`, `NoProducerStarves`, `AcceptedIsWritten`,
`StopReturns`).

## Not modelled

- `CanAlloc`, that is, growth of the block index and of the pool: rtlog and `try_enqueue` use
  `CannotAlloc`.
- Elements whose constructors or assignments throw: the code has paths of their own for
  them, chosen at compile time, and rtlog's elements are moved arrays.
- Bulk calls asked for no element; 64-bit indices that wrap around.
- Recycling the implicit producers of ended threads (not compiled in).  A new thread may get
  the thread-local address of an ended one, and with it its sub-queue.
- `size_approx` and `is_lock_free` of the queue; `BlockingConcurrentQueue`, which is not in this
  repository.
- The log level (a relaxed load before everything else), the text of messages, `fmt` and
  `boost::any`, the file system.
- `Singleton::initialize` or `destroy` while other threads log: `get` dereferences a
  `unique_ptr` that nothing protects, and no order of the accesses would be right.
  `atomic_rtlogger` is written and never read.
- The thread id lookup (`pthread_gettid_np`), which searches memory that is not the program's.

## Plan

Modelled and checked: everything the first plan listed (`SubQueue`, `BlockPool`,
`ImplicitHash`, `LogPipeline` and `Message`, `ExplicitQueue`, the life of logger and consumer,
texts that are too long, bulk operations, consumer tokens), and `Ownership`.  Next: growth of
the block indices (`CanAlloc`) under concurrent readers.
