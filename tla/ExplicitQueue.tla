---------------------------- MODULE ExplicitQueue ----------------------------
(***************************************************************************)
(* The sub-queue of a producer token: ExplicitProducer in                  *)
(* include/concurrentqueue.h.  rtlog creates no token, but its queue has   *)
(* this second kind of producer, with a memory layout of its own: the      *)
(* blocks form a circle that is never given back before the end, the next  *)
(* block is used again once its elements are gone, and consumers find a    *)
(* block by counting back from the front entry of a circular index.        *)
(*                                                                         *)
(* One producer thread enqueues with CannotAlloc, the threads in Consumers *)
(* dequeue; a step is one access to memory they share.  A single enqueue   *)
(* or dequeue goes through the steps of a bulk one of size 1.              *)
(***************************************************************************)
EXTENDS Integers, Sequences, FiniteSets, FiniteSetsExt

CONSTANTS
    Consumers,
    Blocks,         \* the blocks of the pool all the sub-queues share
    Null,
    BlockSize,      \* BLOCK_SIZE
    MaxSubqueue,    \* MAX_SUBQUEUE_SIZE
    IndexSize,      \* pr_blockIndexSize, entries of the block index
    PutSizes,       \* bound: how many elements a call enqueues
    TakeSizes,      \* bound: how many elements a call dequeues at most
    MaxElements,    \* bound: elements accepted
    MaxTickets      \* bound: no dequeue call starts once this many were taken

ASSUME SizeAssumption ==
    /\ BlockSize \in Nat /\ BlockSize > 1
    /\ IndexSize \in Nat /\ IndexSize > 1
    /\ MaxSubqueue \in Nat /\ MaxSubqueue >= BlockSize
    /\ MaxSubqueue % BlockSize = 0
    /\ PutSizes \subseteq Nat \ {0} /\ TakeSizes \subseteq Nat \ {0}
    /\ MaxElements \in Nat /\ MaxTickets \in Nat

ASSUME PointerAssumption == Null \notin Blocks

\* "poolBasedIndexSize": the constructor makes the index at least as large as the
\* initial pool, and with CannotAlloc there are no other blocks.
ASSUME IndexAssumption == IsFiniteSet(Blocks) /\ Cardinality(Blocks) <= IndexSize

VARIABLES
    \* ProducerBase
    tailIndex, headIndex, dequeueOptimisticCount, dequeueOvercommit, tailBlock,
    \* Block: its successor in the circle, its elements, the cells emptied
    next, elements, emptyFlags,
    \* BlockIndexHeader: base and block of every entry, the entry in front
    base, block, front,
    \* pr_blockIndexFront and pr_blockIndexSlotsUsed, the producer's own
    nextFront, slotsUsed,
    \* blocks that can be taken, and those with other producers
    pool, other,
    \* enqueue: program counter; how many elements, the tail block, front and
    \* slots it began with, its first block, and how many blocks it has so far
    ppc, batch,
    \* dequeue, per consumer: program counter; how many elements it wants, what
    \* its tickets are decided with, how many it takes and how many win; its
    \* first index, where it is, and what it moved out
    pc, ticket, found

counters == <<tailIndex, headIndex, dequeueOptimisticCount, dequeueOvercommit>>
contents == <<elements, emptyFlags>>
entries == <<base, block>>
index == <<entries, front, nextFront, slotsUsed>>
places == <<pool, other>>
circle == <<tailBlock, next>>
producer == <<ppc, batch>>
consumer == <<pc, ticket, found>>
vars == <<counters, circle, contents, index, places, producer, consumer>>

-----------------------------------------------------------------------------
Cells == 0 .. BlockSize - 1
Entries == 0 .. IndexSize - 1
NoMessage == 0

Base(i) == i - (i % BlockSize)
Cell(i) == i % BlockSize
Min2(a, b) == IF a < b THEN a ELSE b

NoBatch == [count |-> 0, start |-> Null, first |-> Null, front |-> 0, slots |-> 0,
            blocks |-> 0]
NoTicket == [max |-> 0, tail |-> 0, overcommit |-> 0, count |-> 0, desired |-> 0,
             actual |-> 0]
NotFound == [first |-> 0, index |-> 0, entry |-> 0, block |-> Null, out |-> <<>>]

\* Block::is_empty.  It reads one flag after the other; the consumers only set
\* flags, so the answer is that of one moment.
IsEmpty(b) == emptyFlags[b] = Cells

\* Where the k-th block of this call begins; before the first element of all the
\* code counts from -BLOCK_SIZE.
BlockStart(k) == Base(tailIndex - 1) + BlockSize * k
NeedsMore(n, k) == BlockStart(k) < Base(tailIndex + n - 1)

HasRoom(start, head) ==
    /\ head < start + BlockSize
    /\ start - head <= MaxSubqueue - BlockSize

\* The constructor has new_block_index store 0 - 1 as the front entry: there is
\* none yet.
Init ==
    /\ tailIndex = 0 /\ headIndex = 0
    /\ dequeueOptimisticCount = 0 /\ dequeueOvercommit = 0
    /\ tailBlock = Null /\ next = [b \in Blocks |-> Null]
    /\ elements = [b \in Blocks |-> [i \in Cells |-> NoMessage]]
    /\ emptyFlags = [b \in Blocks |-> {}]
    /\ base = [e \in Entries |-> 0] /\ block = [e \in Entries |-> Null]
    /\ front = -1 /\ nextFront = 0 /\ slotsUsed = 0
    /\ pool = Blocks /\ other = {}
    /\ ppc = "idle" /\ batch = NoBatch
    /\ pc = [c \in Consumers |-> "idle"]
    /\ ticket = [c \in Consumers |-> NoTicket]
    /\ found = [c \in Consumers |-> NotFound]

-----------------------------------------------------------------------------
(* enqueue and enqueue_bulk, with CannotAlloc *)

EnqueueStart(n) ==
    /\ ppc = "idle" /\ tailIndex + n <= MaxElements
    /\ batch' = [NoBatch EXCEPT !.count = n, !.start = tailBlock, !.front = nextFront,
                                !.slots = slotsUsed]
    /\ ppc' = IF NeedsMore(n, 0) THEN "ahead" ELSE "write"
    /\ UNCHANGED <<counters, circle, contents, index, places, consumer>>

\* The block b becomes the tail block and the next one of this call.
Obtain(b) ==
    /\ tailBlock' = b
    /\ batch' = [batch EXCEPT !.blocks = @ + 1, !.first = IF @ = Null THEN b ELSE @]
    /\ ppc' = "base"

AheadIsEmpty ==
    /\ tailBlock # Null /\ next[tailBlock] # batch.first
    /\ IsEmpty(next[tailBlock])

\* The block ahead is empty: it is used again, without a look at the limit.
ReuseBlock ==
    /\ ppc = "ahead" /\ AheadIsEmpty
    /\ Obtain(next[tailBlock])
    /\ UNCHANGED <<counters, next, contents, index, places, consumer>>

NeedBlock ==
    /\ ppc = "ahead" /\ ~AheadIsEmpty
    /\ ppc' = "room"
    /\ UNCHANGED <<counters, circle, contents, index, places, batch, consumer>>

\* The call fails: "undo changes (but keep injected blocks)".
Undo ==
    /\ nextFront' = batch.front /\ slotsUsed' = batch.slots
    /\ tailBlock' = IF batch.start = Null THEN batch.first ELSE batch.start
    /\ batch' = NoBatch /\ ppc' = "idle"

\* Room for one more block, in the sub-queue and in the index, or it refuses.
CheckRoom ==
    /\ ppc = "room"
    /\ IF HasRoom(BlockStart(batch.blocks + 1), headIndex) /\ slotsUsed # IndexSize
       THEN ppc' = "requisition" /\ UNCHANGED <<nextFront, slotsUsed, tailBlock, batch>>
       ELSE Undo
    /\ UNCHANGED <<counters, next, contents, entries, front, places, consumer>>

\* Faulty variant: the new block is a circle of its own.
BugLinked(b) == [next EXCEPT ![b] = b]

\* The circle with b put after the tail block.
Linked(b) ==
    IF tailBlock = Null THEN [next EXCEPT ![b] = b]
    ELSE [next EXCEPT ![b] = next[tailBlock], ![tailBlock] = b]

\* requisition_block; the new block counts as empty until the call succeeds.
Requisition ==
    /\ ppc = "requisition"
    /\ \E b \in pool :
          /\ pool' = pool \ {b}
          /\ emptyFlags' = [emptyFlags EXCEPT ![b] = Cells]
          /\ next' = Linked(b)
          /\ Obtain(b)
    /\ slotsUsed' = slotsUsed + 1
    /\ UNCHANGED <<counters, elements, entries, front, nextFront, other, consumer>>

RequisitionFails ==
    /\ ppc = "requisition" /\ pool = {}
    /\ Undo
    /\ UNCHANGED <<counters, next, contents, entries, front, places, consumer>>

\* The block goes over the oldest entry of the index.
StoreBase ==
    /\ ppc = "base"
    /\ base' = [base EXCEPT ![nextFront] = BlockStart(batch.blocks)]
    /\ ppc' = "entry"
    /\ UNCHANGED <<counters, circle, contents, block, front, nextFront, slotsUsed,
                   places, batch, consumer>>

\* Faulty variant: the index is not circular.
BugEntryAfter(e) == e + 1

EntryAfter(e) == (e + 1) % IndexSize

\* Blocks ahead are looked for no more once a new one was needed.
StoreBlock ==
    /\ ppc = "entry"
    /\ block' = [block EXCEPT ![nextFront] = tailBlock]
    /\ nextFront' = EntryAfter(nextFront)
    /\ ppc' = IF NeedsMore(batch.count, batch.blocks)
              THEN IF slotsUsed > batch.slots THEN "room" ELSE "ahead"
              ELSE "front"
    /\ UNCHANGED <<counters, circle, contents, base, front, slotsUsed, places, batch,
                   consumer>>

\* The blocks of this call, in the order they were obtained.
Chain[k \in 0 .. Cardinality(Blocks)] ==
    CASE k = 0 -> batch.start [] k = 1 -> batch.first [] OTHER -> next[Chain[k - 1]]
ChainBlocks == {Chain[k] : k \in 1 .. batch.blocks}

\* Faulty variant: the blocks used again still count as empty.
BugStoreFront ==
    /\ ppc = "front"
    /\ front' = (nextFront - 1) % IndexSize
    /\ ppc' = "write"
    /\ UNCHANGED <<counters, circle, contents, entries, nextFront, slotsUsed, places,
                   batch, consumer>>

\* All the blocks are there: reset_empty for each, and the last entry written
\* becomes the front.
StoreFront ==
    /\ ppc = "front"
    /\ emptyFlags' = [b \in Blocks |-> IF b \in ChainBlocks THEN {} ELSE emptyFlags[b]]
    /\ front' = (nextFront - 1) % IndexSize
    /\ ppc' = "write"
    /\ UNCHANGED <<counters, circle, elements, entries, nextFront, slotsUsed, places,
                   batch, consumer>>

\* The elements are constructed, block after block; nobody looks at them yet.
WriteElements ==
    LET new == tailIndex .. tailIndex + batch.count - 1
        blockOf(i) == Chain[(Base(i) - BlockStart(0)) \div BlockSize]
    IN  /\ ppc = "write"
        /\ elements' =
              [b \in Blocks |-> [j \in Cells |->
                  LET here == {i \in new : blockOf(i) = b /\ Cell(i) = j}
                  IN  IF here = {} THEN elements[b][j] ELSE Min(here) + 1]]
        /\ ppc' = "commit"
        /\ UNCHANGED <<counters, circle, emptyFlags, index, places, batch, consumer>>

Commit ==
    /\ ppc = "commit"
    /\ tailIndex' = tailIndex + batch.count
    /\ batch' = NoBatch /\ ppc' = "idle"
    /\ UNCHANGED <<headIndex, dequeueOptimisticCount, dequeueOvercommit, circle,
                   contents, index, places, consumer>>

Producer ==
    \/ \E n \in PutSizes : EnqueueStart(n)
    \/ ReuseBlock \/ NeedBlock \/ CheckRoom \/ Requisition \/ RequisitionFails
    \/ StoreBase \/ StoreBlock \/ StoreFront \/ WriteElements \/ Commit

-----------------------------------------------------------------------------
(* dequeue and dequeue_bulk *)

Goto(c, from, to) == pc[c] = from /\ pc' = [pc EXCEPT ![c] = to]

Return(c) ==
    /\ ticket' = [ticket EXCEPT ![c] = NoTicket]
    /\ found' = [found EXCEPT ![c] = NotFound]

LoadTail(c, n) ==
    /\ ppc # "destroyed" /\ dequeueOptimisticCount < MaxTickets
    /\ Goto(c, "idle", "over")
    /\ ticket' = [ticket EXCEPT ![c].max = n, ![c].tail = tailIndex]
    /\ UNCHANGED <<counters, circle, contents, index, places, producer, found>>

LoadOvercommit(c) ==
    /\ Goto(c, "over", "check")
    /\ ticket' = [ticket EXCEPT ![c].overcommit = dequeueOvercommit]
    /\ UNCHANGED <<counters, circle, contents, index, places, producer, found>>

\* Loads dequeueOptimisticCount; returns when nothing seems left.
CheckAvailable(c) ==
    LET left == ticket[c].tail - (dequeueOptimisticCount - ticket[c].overcommit) IN
    /\ \/ /\ left > 0
          /\ Goto(c, "check", "ticket")
          /\ ticket' = [ticket EXCEPT ![c].desired = Min2(left, ticket[c].max)]
          /\ UNCHANGED found
       \/ /\ left <= 0
          /\ Goto(c, "check", "idle") /\ Return(c)
    /\ UNCHANGED <<counters, circle, contents, index, places, producer>>

TakeTickets(c) ==
    /\ Goto(c, "ticket", "recheck")
    /\ ticket' = [ticket EXCEPT ![c].count = dequeueOptimisticCount]
    /\ dequeueOptimisticCount' = dequeueOptimisticCount + ticket[c].desired
    /\ UNCHANGED <<tailIndex, headIndex, dequeueOvercommit, circle, contents,
                   index, places, producer, found>>

\* Loads tailIndex again and decides the tickets, with the old overcommit.
Recheck(c) ==
    LET left == tailIndex - (ticket[c].count - ticket[c].overcommit)
        actual == IF left > 0 THEN Min2(left, ticket[c].desired) ELSE 0
    IN  /\ Goto(c, "recheck", IF actual < ticket[c].desired THEN "giveup" ELSE "claim")
        /\ ticket' = [ticket EXCEPT ![c].actual = actual]
        /\ UNCHANGED <<counters, circle, contents, index, places, producer, found>>

\* The tickets that do not win are given up.
GiveUp(c) ==
    /\ IF ticket[c].actual > 0
       THEN Goto(c, "giveup", "claim") /\ UNCHANGED <<ticket, found>>
       ELSE Goto(c, "giveup", "idle") /\ Return(c)
    /\ dequeueOvercommit' = dequeueOvercommit + ticket[c].desired - ticket[c].actual
    /\ UNCHANGED <<tailIndex, headIndex, dequeueOptimisticCount, circle, contents,
                   index, places, producer>>

Claim(c) ==
    /\ Goto(c, "claim", "front")
    /\ found' = [found EXCEPT ![c].first = headIndex, ![c].index = headIndex]
    /\ ticket' = [ticket EXCEPT ![c] = [NoTicket EXCEPT !.actual = ticket[c].actual]]
    /\ headIndex' = headIndex + ticket[c].actual
    /\ UNCHANGED <<tailIndex, dequeueOptimisticCount, dequeueOvercommit, circle,
                   contents, index, places, producer>>

LoadFront(c) ==
    /\ Goto(c, "front", "base")
    /\ found' = [found EXCEPT ![c].entry = front]
    /\ UNCHANGED <<counters, circle, contents, index, places, producer, ticket>>

\* From the base of the front entry, counts back to the entry of the first
\* element's block.
LoadBase(c) ==
    LET f == found[c]
        offset == (Base(f.index) - base[f.entry]) \div BlockSize
    IN  /\ Goto(c, "base", "block")
        /\ found' = [found EXCEPT ![c].entry = (@ + offset) % IndexSize]
        /\ UNCHANGED <<counters, circle, contents, index, places, producer, ticket>>

LoadBlock(c) ==
    /\ Goto(c, "block", "move")
    /\ found' = [found EXCEPT ![c].block = block[found[c].entry]]
    /\ UNCHANGED <<counters, circle, contents, index, places, producer, ticket>>

\* The index after the elements moved so far, and after the last one claimed.
MovedTo(c) == found[c].first + Len(found[c].out)
ClaimedTo(c) == found[c].first + ticket[c].actual

\* The claimed elements of this block are moved out and destroyed.
MoveElements(c) ==
    LET b == found[c].block
        from == found[c].index
        to == Min2(Base(from) + BlockSize, ClaimedTo(c))
    IN  /\ Goto(c, "move", "empty")
        /\ found' = [found EXCEPT ![c].out =
                        @ \o [k \in 1 .. to - from |-> elements[b][Cell(from) + k - 1]]]
        /\ elements' = [elements EXCEPT ![b] =
                           [i \in Cells |-> IF Base(from) + i \in from .. to - 1
                                            THEN NoMessage ELSE @[i]]]
        /\ UNCHANGED <<counters, circle, emptyFlags, index, places, producer, ticket>>

\* Block::set_empty or set_many_empty; the block stays in the circle.  Then to the
\* block of the next entry, or back to the caller.
SetEmpty(c) ==
    /\ IF MovedTo(c) = ClaimedTo(c) THEN Goto(c, "empty", "idle") /\ Return(c)
       ELSE /\ Goto(c, "empty", "block")
            /\ found' = [found EXCEPT ![c].index = MovedTo(c), ![c].entry = EntryAfter(@)]
            /\ UNCHANGED ticket
    /\ emptyFlags' = [emptyFlags EXCEPT ![found[c].block] =
                         @ \cup {Cell(i) : i \in found[c].index .. MovedTo(c) - 1}]
    /\ UNCHANGED <<counters, circle, elements, index, places, producer>>

Consumer(c) ==
    \/ \E n \in TakeSizes : LoadTail(c, n)
    \/ LoadOvercommit(c) \/ CheckAvailable(c) \/ TakeTickets(c) \/ Recheck(c)
    \/ GiveUp(c) \/ Claim(c) \/ LoadFront(c) \/ LoadBase(c) \/ LoadBlock(c)
    \/ MoveElements(c) \/ SetEmpty(c)

-----------------------------------------------------------------------------
(* ~ExplicitProducer, with the queue: every call has returned *)

AllReturned == ppc = "idle" /\ \A c \in Consumers : pc[c] = "idle"

\* The blocks that following next from the tail block visits: those in every set
\* that has the tail block and is closed under next.
Circle ==
    {b \in Blocks : tailBlock # Null /\ \A visited \in SUBSET Blocks :
        tailBlock \in visited /\ (\A x \in visited : next[x] \in visited \cup {Null})
            => b \in visited}

\* The entry of the block that the head is in the middle of: looked up from the
\* oldest entry on.
HalfDequeuedEntry ==
    LET entry(k) == (nextFront - slotsUsed + k) % IndexSize
    IN  entry(Min({k \in Entries : base[entry(k)] + BlockSize >= headIndex}))

\* When the head is on a block boundary there is none.
HalfDequeuedBlock == IF Cell(headIndex) = 0 THEN Null ELSE block[HalfDequeuedEntry]

\* Faulty variant: the elements already dequeued are destroyed again.
BugFirstLeft(b) == 0

\* Where the elements of a block that is not empty begin and end.
FirstLeft(b) == IF b = HalfDequeuedBlock THEN Cell(headIndex) ELSE 0
EndOf(b) ==
    IF b = tailBlock /\ Cell(tailIndex) # 0 THEN Cell(tailIndex) ELSE BlockSize

Doomed ==
    {p \in Circle \X Cells : ~IsEmpty(p[1]) /\ p[2] \in FirstLeft(p[1]) .. EndOf(p[1]) - 1}

\* The elements still waiting are destroyed, and all the blocks given back.
Destroy ==
    /\ AllReturned
    /\ ppc' = "destroyed"
    /\ elements' =
          [b \in Blocks |-> [i \in Cells |->
              IF <<b, i>> \in Doomed THEN NoMessage ELSE elements[b][i]]]
    /\ pool' = pool \cup Circle
    /\ tailBlock' = Null
    /\ UNCHANGED <<counters, next, emptyFlags, index, other, batch, consumer>>

\* Other producers take blocks and give them back.
OtherTakes(b) ==
    /\ b \in pool
    /\ pool' = pool \ {b} /\ other' = other \cup {b}
    /\ UNCHANGED <<counters, circle, contents, index, producer, consumer>>

OtherReturns(b) ==
    /\ b \in other
    /\ other' = other \ {b} /\ pool' = pool \cup {b}
    /\ UNCHANGED <<counters, circle, contents, index, producer, consumer>>

Next ==
    \/ Producer
    \/ \E c \in Consumers : Consumer(c)
    \/ \E b \in Blocks : OtherTakes(b) \/ OtherReturns(b)
    \/ Destroy

Spec == Init /\ [][Next]_vars

-----------------------------------------------------------------------------
(* Properties *)

\* Type invariant of the circle, the index and the threads using them.
TypeOK ==
    /\ tailIndex \in Nat /\ headIndex \in Nat
    /\ dequeueOptimisticCount \in Nat /\ dequeueOvercommit \in Nat
    /\ tailBlock \in Blocks \cup {Null}
    /\ next \in [Blocks -> Blocks \cup {Null}]
    /\ elements \in [Blocks -> [Cells -> Nat]]
    /\ emptyFlags \in [Blocks -> SUBSET Cells]
    /\ base \in [Entries -> Nat] /\ block \in [Entries -> Blocks \cup {Null}]
    /\ front \in Entries \cup {-1} /\ nextFront \in Entries
    /\ slotsUsed \in 0 .. IndexSize
    /\ pool \subseteq Blocks /\ other \subseteq Blocks
    /\ ppc \in {"idle", "ahead", "room", "requisition", "base", "entry", "front",
                "write", "commit", "destroyed"}
    /\ batch \in [count : Nat, start : Blocks \cup {Null}, first : Blocks \cup {Null},
                  front : Entries, slots : 0 .. IndexSize, blocks : Nat]
    /\ pc \in [Consumers -> {"idle", "over", "check", "ticket", "recheck", "claim",
                             "giveup", "front", "base", "block", "move", "empty"}]
    /\ ticket \in [Consumers -> [max : Nat, tail : Nat, overcommit : Nat, count : Nat,
                                 desired : Nat, actual : Nat]]
    /\ found \in [Consumers -> [first : Nat, index : Nat, entry : Entries,
                                block : Blocks \cup {Null}, out : Seq(Nat)]]

\* A block is takeable, with another producer or in the circle, never in two of
\* these and never in none, the circle closes, and it has a block for every slot
\* that is counted.  (A bulk enqueue that fails leaves blocks in it uncounted.)
OnePlacePerBlock ==
    /\ \A b \in Blocks :
          Cardinality({p \in {<<1, pool>>, <<2, other>>, <<3, Circle>>} : b \in p[2]}) = 1
    /\ tailBlock # Null => /\ Cardinality(Circle) >= slotsUsed
                           /\ \E b \in Circle : next[b] = tailBlock

\* "assert(details::circular_less_than<index_t>(pr_blockIndexEntries[i].base,
\* this->headIndex.load(std::memory_order_relaxed)))" of the destructor: the entry
\* it finds is that of the block the head is in.
HalfDequeuedIsFound ==
    AllReturned /\ tailBlock # Null /\ Cell(headIndex) # 0 =>
        base[HalfDequeuedEntry] < headIndex

\* The destructor, whenever it may run, destroys the elements that were constructed
\* and not dequeued, and no others, as long as every block of the circle is counted
\* and its own assertion holds (a bulk enqueue that fails may undo either).
DestructorIsExact ==
    AllReturned /\ Cardinality(Circle) = slotsUsed /\ HalfDequeuedIsFound =>
        Doomed = {p \in Blocks \X Cells : elements[p[1]][p[2]] # NoMessage}

\* "The maximum number of elements (inclusive) that can be enqueued to a sub-queue.
\* Enqueue operations that would cause this limit to be surpassed will fail"
\* (the comment of MAX_SUBQUEUE_SIZE).
SubqueueBound == tailIndex - headIndex <= MaxSubqueue

\* What a consumer has claimed: what it has moved out, then the messages at the
\* claimed indexes.
Holds(c) ==
    IF pc[c] \in {"front", "base", "block", "move", "empty"}
    THEN found[c].out \o [k \in 1 .. ClaimedTo(c) - MovedTo(c) |-> MovedTo(c) + k]
    ELSE <<>>

\* The bounded FIFO that this sub-queue is; its bound is that of the circle.
AsFifo ==
    INSTANCE Fifo WITH
        Capacity <- BlockSize * IndexSize,
        queue <- [i \in 1 .. tailIndex - headIndex |-> headIndex + i],
        newest <- tailIndex,
        hand <- [c \in Consumers |-> Holds(c)]

\* The circle of blocks implements the bounded FIFO: every element is found where
\* it was put, whatever entries the producer overwrites, blocks it uses again and
\* bulk calls it undoes.
ImplementsFifo == AsFifo!Spec

-----------------------------------------------------------------------------
(* Why the tickets are right *)

\* The tickets of the calls that have yet to decide, of those that won and have yet
\* to claim, and of those that lost and have yet to be given up.
TicketsOf(c) == ticket[c].count .. ticket[c].count + ticket[c].desired - 1
WonBy(c) == ticket[c].count .. ticket[c].count + ticket[c].actual - 1

Open == UNION {TicketsOf(c) : c \in {d \in Consumers : pc[d] = "recheck"}}
Won == UNION {WonBy(c) : c \in {d \in Consumers : pc[d] \in {"giveup", "claim"}}}
Lost == UNION {TicketsOf(c) \ WonBy(c) : c \in {d \in Consumers : pc[d] = "giveup"}}

OpenBelow(n) == {t \in Open : t < n}

\* The tickets taken are those claimed, won, open, lost or given up.
TicketsCounted ==
    headIndex + Cardinality(Won) + Cardinality(Open) + Cardinality(Lost)
        + dequeueOvercommit = dequeueOptimisticCount

\* Calls hold different tickets.
TicketsApart ==
    /\ \A c \in Consumers : pc[c] \in {"recheck", "giveup", "claim"} =>
          TicketsOf(c) \subseteq 0 .. dequeueOptimisticCount - 1
    /\ \A c, d \in Consumers :
          /\ c # d
          /\ pc[c] \in {"recheck", "giveup", "claim"}
          /\ pc[d] \in {"recheck", "giveup", "claim"}
          => TicketsOf(c) \cap TicketsOf(d) = {}

\* Below n, the last ticket won, everything open can still win; a call with tickets
\* from n on has seen an overcommit that leaves room for what may win before it.
Winnable(n) ==
    /\ headIndex + Cardinality(Won) + Cardinality(OpenBelow(n)) <= tailIndex
    /\ \A c \in Consumers : pc[c] = "recheck" =>
          \/ ticket[c].count + ticket[c].desired <= n
          \/ /\ n <= ticket[c].count
             /\ headIndex + Cardinality(Won) + Cardinality(OpenBelow(ticket[c].count))
                   <= ticket[c].count - ticket[c].overcommit

TicketFields(c) ==
    /\ pc[c] \in {"over", "check", "ticket"} => ticket[c].max > 0
    /\ pc[c] \in {"check", "ticket"} => ticket[c].overcommit <= dequeueOvercommit
    /\ pc[c] \in {"ticket", "recheck", "claim", "giveup"} => ticket[c].desired > 0
    /\ pc[c] \in {"claim", "giveup"} => ticket[c].actual <= ticket[c].desired
    /\ pc[c] = "giveup" => ticket[c].actual < ticket[c].desired
    /\ pc[c] \in {"claim", "front", "base", "block", "move", "empty"} =>
          ticket[c].actual > 0

\* The inductive invariant of the counters.
TicketInv ==
    /\ \A c \in Consumers : TicketFields(c)
    /\ TicketsCounted /\ TicketsApart
    /\ \E n \in 0 .. dequeueOptimisticCount : Winnable(n)

-----------------------------------------------------------------------------
(* Why every element is found: blocks are numbered in the order of their use *)

Pos(i) == i \div BlockSize

\* How many of them hold elements, and which one was obtained last.
Started == Pos(tailIndex + BlockSize - 1)
Latest == Started - 1 + batch.blocks

\* Its entry is written when the call has got to the next step.
At(p) ==
    IF p = Latest /\ ppc \in {"base", "entry"} THEN tailBlock ELSE block[p % IndexSize]

Claimants == {c \in Consumers : pc[c] \in {"front", "base", "block", "move", "empty"}}

\* An index whose cell is not marked empty (yet), and one whose element is there.
NotEmptied(i) ==
    \/ i >= headIndex
    \/ \E c \in Claimants : i \in found[c].index .. ClaimedTo(c) - 1
Present(i) ==
    \/ i \in headIndex .. tailIndex - 1
    \/ ppc = "commit" /\ i \in tailIndex .. tailIndex + batch.count - 1
    \/ \E c \in Claimants : i \in MovedTo(c) .. ClaimedTo(c) - 1

\* The blocks in use: from the first that has an index not emptied.
Needed(p) == \E i \in 0 .. headIndex : NotEmptied(i) /\ Pos(i) <= p
Live(p) == p \in 0 .. Latest /\ Needed(p)

\* What a claim is, and that no two overlap.
ClaimRight ==
    /\ \A c \in Consumers \ Claimants : found[c] = NotFound
    /\ \A c \in Claimants :
          /\ found[c].first <= found[c].index
          /\ found[c].index < ClaimedTo(c) /\ ClaimedTo(c) <= headIndex
          /\ MovedTo(c) = IF pc[c] = "empty"
                          THEN Min2(Base(found[c].index) + BlockSize, ClaimedTo(c))
                          ELSE found[c].index
          /\ found[c].out = [k \in 1 .. Len(found[c].out) |-> found[c].first + k]
    /\ \A c, d \in Claimants : c # d =>
          ClaimedTo(c) <= found[d].index \/ ClaimedTo(d) <= found[c].index

InBatch == ppc \notin {"idle", "destroyed"}

\* What a call of enqueue_bulk has at each step.
BatchRight ==
    /\ batch.first = Null <=> batch.blocks = 0
    /\ ~InBatch => batch = NoBatch
    /\ InBatch =>
          /\ batch.count > 0
          /\ batch.front = Started % IndexSize
          /\ batch.start = Null => Started = 0
          /\ batch.slots <= Started
          /\ batch.blocks = 0 => tailBlock = batch.start
    /\ ppc \in {"ahead", "room", "requisition"} =>
          NeedsMore(batch.count, batch.blocks)
    /\ ppc \in {"base", "entry"} =>
          batch.blocks > 0 /\ NeedsMore(batch.count, batch.blocks - 1)
    /\ ppc = "front" => batch.blocks > 0
    /\ ppc \in {"front", "write", "commit"} =>
          ~NeedsMore(batch.count, batch.blocks)
    /\ ppc \in {"front", "write", "commit"} /\ batch.blocks > 0 =>
          NeedsMore(batch.count, batch.blocks - 1)

\* The blocks of this producer form one circle.
Own == Blocks \ (pool \cup other)
CircleRight ==
    /\ pool \cap other = {}
    /\ tailBlock = Null => Own = {}
    /\ tailBlock # Null => tailBlock \in Own
    /\ batch.start # Null => batch.start \in Own
    /\ \A b \in Own : next[b] \in Own
    /\ \A b, d \in Own : next[b] = next[d] => b = d
    /\ \A part \in SUBSET Own :
          part # {} /\ (\A b \in part : next[b] \in part) => part = Own

\* The slots that are counted, and the producer's place in the index.
SlotsRight ==
    /\ nextFront = (IF ppc \in {"base", "entry"} THEN Latest ELSE Latest + 1) % IndexSize
    /\ slotsUsed <= Cardinality(Own) /\ slotsUsed <= Latest + 1
    /\ ppc = "requisition" => slotsUsed < IndexSize
    /\ batch.slots <= slotsUsed
    /\ front = IF Started = 0 /\ ppc \notin {"write", "commit"} THEN -1
               ELSE (IF ppc \in {"write", "commit"} THEN Latest ELSE Started - 1) % IndexSize

\* An entry was not written yet, or has the base of some block that belongs there.
Matches(e) ==
    base[e] % BlockSize = 0 /\ (base[e] \div BlockSize) % IndexSize = e
BasesRight ==
    /\ \A e \in Entries :
          \/ Matches(e)
          \/ base[e] = 0 /\ e > (IF ppc = "base" THEN Latest - 1 ELSE Latest)
    /\ \A c \in Claimants :
          /\ pc[c] = "base" => Matches(found[c].entry)
          /\ pc[c] \in {"block", "move", "empty"} =>
                found[c].entry = Pos(found[c].index) % IndexSize
          /\ pc[c] \in {"move", "empty"} => found[c].block = At(Pos(found[c].index))

\* The blocks in use are different, in the order of the circle, and in the index.
RingRight ==
    /\ \A p \in 0 .. Latest : Live(p) => At(p) \in Own
    /\ \A p, q \in 0 .. Latest : Live(p) /\ Live(q) /\ At(p) = At(q) => p = q
    /\ \A p \in 0 .. Latest - 1 : Live(p) => next[At(p)] = At(p + 1)
    /\ Live(Latest) => tailBlock = At(Latest)
    /\ tailBlock = Null => Latest = -1
    /\ InBatch /\ Live(Started - 1) => batch.start = At(Started - 1)
    /\ batch.blocks > 0 => batch.first = At(Started)
    /\ \A p \in 0 .. Latest : Live(p) =>
          (ppc = "base" /\ p = Latest) \/ base[p % IndexSize] = BlockSize * p

\* The flags of a block in use are those of its emptied cells, all others are set.
Emptied(p) == {j \in Cells : ~NotEmptied(BlockSize * p + j)}
FlagsRight ==
    /\ \A p \in 0 .. Latest : Live(p) =>
          emptyFlags[At(p)] = IF p < Started \/ ppc \in {"write", "commit"}
                              THEN Emptied(p) ELSE Cells
    /\ \A b \in Own : (\A p \in 0 .. Latest : Live(p) => b # At(p)) => IsEmpty(b)

\* A cell has the element of an index that is there, or nothing.
ContentsRight ==
    /\ \A i \in 0 .. tailIndex + batch.count : Present(i) =>
          elements[At(Pos(i))][Cell(i)] = i + 1
    /\ \A b \in Blocks, j \in Cells : elements[b][j] # NoMessage =>
          \E i \in 0 .. tailIndex + batch.count :
             Present(i) /\ b = At(Pos(i)) /\ j = Cell(i)

\* The inductive invariant of the blocks.
LayoutInv ==
    /\ ClaimRight /\ BatchRight /\ CircleRight
    /\ ppc # "destroyed" =>
          SlotsRight /\ BasesRight /\ RingRight /\ FlagsRight /\ ContentsRight
    /\ ppc = "destroyed" => tailBlock = Null /\ \A c \in Consumers : pc[c] = "idle"

=============================================================================
