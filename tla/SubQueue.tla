------------------------------ MODULE SubQueue ------------------------------
(***************************************************************************)
(* One producer's sub-queue of the message queue: ImplicitProducer in      *)
(* include/concurrentqueue.h, the structure every log message of a thread  *)
(* goes through.  One producer thread enqueues; the threads in Consumers   *)
(* dequeue.  Every step below is one access to memory the threads share,   *)
(* so that all the interleavings of enqueue and dequeue are explored.      *)
(*                                                                         *)
(* Message n is the n-th one the sub-queue accepts; a refused one is never *)
(* stored anywhere and has no number.                                      *)
(***************************************************************************)
EXTENDS Integers, Sequences, FiniteSets

CONSTANTS
    Consumers,      \* threads that dequeue (rtlog has one per logger)
    Blocks,         \* the blocks of the pool all the sub-queues share
    Null,           \* the null pointer
    Garbage,        \* a pointer never initialised
    BlockSize,      \* BLOCK_SIZE, elements per block
    MaxSubqueue,    \* MAX_SUBQUEUE_SIZE, elements per sub-queue
    IndexCap,       \* IMPLICIT_INITIAL_INDEX_SIZE, slots of the block index
    StaleWindow,    \* how far behind a relaxed load of a counter may be
    MaxElements,    \* bound: elements accepted
    MaxTickets      \* bound: no dequeue call starts once this many were taken

\* The code asks for powers of two above one (and rounds MAX_SUBQUEUE_SIZE up
\* to a multiple of BLOCK_SIZE); less is enough here.
ASSUME SizeAssumption ==
    /\ BlockSize \in Nat /\ BlockSize > 1
    /\ IndexCap \in Nat /\ IndexCap > 1
    /\ MaxSubqueue \in Nat /\ MaxSubqueue >= BlockSize
    /\ MaxSubqueue % BlockSize = 0
    /\ StaleWindow \in Nat /\ MaxElements \in Nat /\ MaxTickets \in Nat

ASSUME PointerAssumption ==
    Null \notin Blocks /\ Garbage \notin Blocks /\ Null # Garbage

VARIABLES
    \* ProducerBase
    tailIndex, headIndex, dequeueOptimisticCount, dequeueOvercommit, tailBlock,
    \* BlockIndexHeader: its tail, and the key and value of every slot
    indexTail, key, value,
    \* Block
    elements, elementsCompletelyDequeued,
    \* where the blocks outside this sub-queue are
    pool,           \* takeable: rest of the initial pool, and the free list
    freeing,        \* given back, not yet linked in the free list
    other,          \* used by other producers
    \* enqueue: program counter, the block just obtained
    ppc, newBlock,
    \* dequeue, per consumer: program counter, what its ticket is decided with,
    \* where its element is, the element
    pc, ticket, found, element,
    \* history: the tickets that claimed an element, and those given up
    won, lost

counters == <<tailIndex, headIndex, dequeueOptimisticCount, dequeueOvercommit>>
blockIndex == <<indexTail, key, value>>
contents == <<elements, elementsCompletelyDequeued>>
places == <<pool, freeing, other>>
producer == <<ppc, newBlock, tailBlock>>
consumer == <<pc, ticket, found, element>>
history == <<won, lost>>
vars == <<counters, blockIndex, contents, places, producer, consumer, history>>

-----------------------------------------------------------------------------
(* Sizes, positions and lookups *)

Slots == 0 .. IndexCap - 1
Cells == 0 .. BlockSize - 1
Messages == 1 .. MaxElements
NoMessage == 0          \* a cell without a constructed element
INVALID_BLOCK_BASE == 1 \* no block starts at an odd index

\* What a relaxed load of a counter that only grows may return.
Recent(x) == (IF x > StaleWindow THEN x - StaleWindow ELSE 0) .. x

\* A thread that has seen a value of the counter sees no older one from then on.
RecentSince(x, seen) == {n \in Recent(x) : n >= seen}

\* index & ~(BLOCK_SIZE - 1), and index & (BLOCK_SIZE - 1)
Base(i) == i - (i % BlockSize)
Cell(i) == i % BlockSize

NextSlot == (indexTail + 1) % IndexCap
\* Faulty variant: the ring does not close below slot 0.
BugPrevSlot == indexTail - 1
PrevSlot == (indexTail - 1) % IndexCap

\* The slot of the block that holds index i, counted from a slot whose key is
\* tailBase.
SlotOf(i, slot, tailBase) ==
    (slot + ((Base(i) - tailBase) \div BlockSize)) % IndexCap

\* Faulty variant: the block about to be added is not counted.
BugHasRoom(head) ==
    /\ head < tailIndex + BlockSize
    /\ tailIndex - head <= MaxSubqueue

\* Room for one more block, judged with a head index loaded earlier.
HasRoom(head) ==
    /\ head < tailIndex + BlockSize
    /\ tailIndex - head <= MaxSubqueue - BlockSize

\* A slot may be overwritten once its block was given back.
SlotReusable(s) == key[s] = INVALID_BLOCK_BASE \/ value[s] = Null

\* Faulty variants: off by one, either way.
BugBelow(n, o, t) == n - o <= t
BugBelowEarly(n, o, t) == n - o + 1 < t

\* The optimistic test: does ticket n, judged with overcommit o, lie below the
\* tail t?
Below(n, o, t) == n - o < t

\* Faulty variant: the last element of a block is missed.
BugLastOfBlock(before) == before = BlockSize

\* Was this the last element of its block to go?
LastOfBlock(before) == before = BlockSize - 1

\* The locals of a dequeue call that is not running.
NoTicket == [tail |-> 0, overcommit |-> 0, count |-> 0]
NotFound == [index |-> 0, entry |-> 0, block |-> Null]

-----------------------------------------------------------------------------
Init ==
    /\ tailIndex = 0 /\ headIndex = 0
    /\ dequeueOptimisticCount = 0 /\ dequeueOvercommit = 0
    /\ tailBlock = Null
    /\ indexTail = IndexCap - 1
    /\ key = [s \in Slots |-> INVALID_BLOCK_BASE]
    \* new_block_index constructs the entries without initialising value
    /\ value \in [Slots -> {Null, Garbage}]
    /\ elements = [b \in Blocks |-> [i \in Cells |-> NoMessage]]
    /\ elementsCompletelyDequeued = [b \in Blocks |-> 0]
    /\ pool = Blocks /\ freeing = {} /\ other = {}
    /\ ppc = "idle" /\ newBlock = Null
    /\ pc = [c \in Consumers |-> "idle"]
    /\ ticket = [c \in Consumers |-> NoTicket]
    /\ found = [c \in Consumers |-> NotFound]
    /\ element = [c \in Consumers |-> NoMessage]
    /\ won = {} /\ lost = {}

-----------------------------------------------------------------------------
(* enqueue, with CannotAlloc: nothing is ever allocated *)

\* The call: at the first cell of a block a new block is needed.
EnqueueStart ==
    /\ ppc = "idle" /\ tailIndex < MaxElements
    /\ ppc' = IF Cell(tailIndex) = 0 THEN "room" ELSE "write"
    /\ UNCHANGED <<counters, blockIndex, contents, places, newBlock,
                   tailBlock, consumer, history>>

\* Loads headIndex and refuses when a further block would exceed the limit.
CheckRoom ==
    /\ ppc = "room"
    /\ \E head \in Recent(headIndex) :
          ppc' = IF HasRoom(head) THEN "insert" ELSE "idle"
    /\ UNCHANGED <<counters, blockIndex, contents, places, newBlock,
                   tailBlock, consumer, history>>

\* insert_block_index_entry finds the next slot and stores its key ...
InsertKey ==
    /\ ppc = "insert" /\ SlotReusable(NextSlot)
    /\ key' = [key EXCEPT ![NextSlot] = tailIndex]
    /\ ppc' = "advance"
    /\ UNCHANGED <<counters, indexTail, value, contents, places, newBlock,
                   tailBlock, consumer, history>>

\* ... or refuses: the slot's block is still in use, or a relaxed load of its
\* value does not show yet that it was cleared.
InsertRefused ==
    /\ ppc = "insert"
    /\ \/ ~SlotReusable(NextSlot)
       \/ StaleWindow > 0 /\ key[NextSlot] # INVALID_BLOCK_BASE
    /\ ppc' = "idle"
    /\ UNCHANGED <<counters, blockIndex, contents, places, newBlock,
                   tailBlock, consumer, history>>

\* ... and publishes the slot as the tail of the block index.
AdvanceIndex ==
    /\ ppc = "advance"
    /\ indexTail' = NextSlot
    /\ ppc' = "requisition"
    /\ UNCHANGED <<counters, key, value, contents, places, newBlock,
                   tailBlock, consumer, history>>

\* Faulty variant: the block stays takeable.
BugRequisition ==
    /\ ppc = "requisition"
    /\ newBlock' \in pool
    /\ ppc' = "reset"
    /\ UNCHANGED <<counters, blockIndex, contents, places, tailBlock, consumer,
                   history>>

\* requisition_block: any block of the pool.
Requisition ==
    /\ ppc = "requisition"
    /\ \E b \in pool :
          /\ newBlock' = b
          /\ pool' = pool \ {b}
    /\ ppc' = "reset"
    /\ UNCHANGED <<counters, blockIndex, contents, freeing, other, tailBlock,
                   consumer, history>>

\* No block: the pool is empty, or a relaxed load of the free list's head
\* shows it so.
RequisitionFails ==
    /\ ppc = "requisition"
    /\ pool = {} \/ StaleWindow > 0
    /\ ppc' = "rewind"
    /\ UNCHANGED <<counters, blockIndex, contents, places, newBlock,
                   tailBlock, consumer, history>>

\* rewind_block_index_tail, while consumers may be looking blocks up.
RewindIndex ==
    /\ ppc = "rewind"
    /\ indexTail' = PrevSlot
    /\ ppc' = "clear"
    /\ UNCHANGED <<counters, key, value, contents, places, newBlock,
                   tailBlock, consumer, history>>

\* idxEntry->value = nullptr: the abandoned slot must be reusable.
ClearEntry ==
    /\ ppc = "clear"
    /\ value' = [value EXCEPT ![NextSlot] = Null]
    /\ ppc' = "idle"
    /\ UNCHANGED <<counters, indexTail, key, contents, places, newBlock,
                   tailBlock, consumer, history>>

\* Block::reset_empty
ResetEmpty ==
    /\ ppc = "reset"
    /\ elementsCompletelyDequeued' =
          [elementsCompletelyDequeued EXCEPT ![newBlock] = 0]
    /\ ppc' = "publish"
    /\ UNCHANGED <<counters, blockIndex, elements, places, newBlock,
                   tailBlock, consumer, history>>

\* The block enters the index and becomes the tail block.
PublishBlock ==
    /\ ppc = "publish"
    /\ value' = [value EXCEPT ![indexTail] = newBlock]
    /\ tailBlock' = newBlock
    /\ newBlock' = Null
    /\ ppc' = "write"
    /\ UNCHANGED <<counters, indexTail, key, contents, places, consumer,
                   history>>

\* The element is constructed in its cell of the tail block.
WriteElement ==
    /\ ppc = "write"
    /\ elements' =
          [elements EXCEPT ![tailBlock][Cell(tailIndex)] = tailIndex + 1]
    /\ ppc' = "commit"
    /\ UNCHANGED <<counters, blockIndex, elementsCompletelyDequeued, places,
                   newBlock, tailBlock, consumer, history>>

\* The store of tailIndex makes it visible: the enqueue returns true.
Commit ==
    /\ ppc = "commit"
    /\ tailIndex' = tailIndex + 1
    /\ ppc' = "idle"
    /\ UNCHANGED <<headIndex, dequeueOptimisticCount, dequeueOvercommit,
                   blockIndex, contents, places, newBlock, tailBlock,
                   consumer, history>>

Producer ==
    \/ EnqueueStart \/ CheckRoom \/ InsertKey \/ InsertRefused \/ AdvanceIndex
    \/ Requisition \/ RequisitionFails \/ RewindIndex \/ ClearEntry
    \/ ResetEmpty \/ PublishBlock \/ WriteElement \/ Commit

-----------------------------------------------------------------------------
(* dequeue *)

Goto(c, from, to) == pc[c] = from /\ pc' = [pc EXCEPT ![c] = to]

\* The call's locals: kept while the call runs, gone when it returns.
Keep == UNCHANGED <<ticket, found, element>>
Return(c) ==
    /\ ticket' = [ticket EXCEPT ![c] = NoTicket]
    /\ found' = [found EXCEPT ![c] = NotFound]
    /\ element' = [element EXCEPT ![c] = NoMessage]

\* The call begins.
LoadTail(c) ==
    /\ Goto(c, "idle", "over")
    /\ ppc # "destroyed" /\ dequeueOptimisticCount < MaxTickets
    /\ \E t \in Recent(tailIndex) :
          ticket' = [ticket EXCEPT ![c].tail = t]
    /\ UNCHANGED <<counters, blockIndex, contents, places, producer, found,
                   element, history>>

LoadOvercommit(c) ==
    /\ Goto(c, "over", "check")
    /\ \E o \in Recent(dequeueOvercommit) :
          ticket' = [ticket EXCEPT ![c].overcommit = o]
    /\ UNCHANGED <<counters, blockIndex, contents, places, producer, found,
                   element, history>>

\* Loads dequeueOptimisticCount; returns false when nothing seems left.
CheckAvailable(c) ==
    /\ \E n \in Recent(dequeueOptimisticCount) :
          \/ /\ Below(n, ticket[c].overcommit, ticket[c].tail)
             /\ Goto(c, "check", "ticket") /\ Keep
          \/ /\ ~Below(n, ticket[c].overcommit, ticket[c].tail)
             /\ Goto(c, "check", "idle") /\ Return(c)
    /\ UNCHANGED <<counters, blockIndex, contents, places, producer, history>>

\* dequeueOptimisticCount.fetch_add(1)
TakeTicket(c) ==
    /\ Goto(c, "ticket", "recheck")
    /\ ticket' = [ticket EXCEPT ![c].count = dequeueOptimisticCount]
    /\ dequeueOptimisticCount' = dequeueOptimisticCount + 1
    /\ UNCHANGED <<tailIndex, headIndex, dequeueOvercommit, blockIndex,
                   contents, places, producer, found, element, history>>

\* Loads tailIndex again and decides the ticket, with the old overcommit.
Recheck(c) ==
    /\ \E t \in RecentSince(tailIndex, ticket[c].tail) :
          Goto(c, "recheck",
               IF Below(ticket[c].count, ticket[c].overcommit, t) THEN "claim"
                                                                ELSE "giveup")
    /\ Keep
    /\ UNCHANGED <<counters, blockIndex, contents, places, producer, history>>

\* Faulty variant: a ticket given up is not counted.
BugGiveUp(c) ==
    /\ Goto(c, "giveup", "idle") /\ Return(c)
    /\ lost' = lost \cup {ticket[c].count}
    /\ UNCHANGED <<counters, blockIndex, contents, places, producer, won>>

\* dequeueOvercommit.fetch_add(1): the ticket is given up, returns false.
GiveUp(c) ==
    /\ Goto(c, "giveup", "idle") /\ Return(c)
    /\ dequeueOvercommit' = dequeueOvercommit + 1
    /\ lost' = lost \cup {ticket[c].count}
    /\ UNCHANGED <<tailIndex, headIndex, dequeueOptimisticCount, blockIndex,
                   contents, places, producer, won>>

\* Faulty variant: the index is taken after the increment.
BugClaim(c) ==
    /\ Goto(c, "claim", "slot")
    /\ found' = [found EXCEPT ![c].index = headIndex + 1]
    /\ headIndex' = headIndex + 1
    /\ won' = won \cup {ticket[c].count}
    /\ UNCHANGED <<tailIndex, dequeueOptimisticCount, dequeueOvercommit,
                   blockIndex, contents, places, producer, ticket, element,
                   lost>>

\* headIndex.fetch_add(1): the element at this index is the caller's.
Claim(c) ==
    /\ Goto(c, "claim", "slot")
    /\ found' = [found EXCEPT ![c].index = headIndex]
    /\ headIndex' = headIndex + 1
    /\ won' = won \cup {ticket[c].count}
    /\ UNCHANGED <<tailIndex, dequeueOptimisticCount, dequeueOvercommit,
                   blockIndex, contents, places, producer, ticket, element,
                   lost>>

\* get_block_index_index_for_index loads the index's tail ...
LoadIndexTail(c) ==
    /\ Goto(c, "slot", "key")
    /\ found' = [found EXCEPT ![c].entry = indexTail]
    /\ UNCHANGED <<counters, blockIndex, contents, places, producer, ticket,
                   element, history>>

\* ... then the key stored there, and counts from it to the block's slot.
LookUpSlot(c) ==
    /\ Goto(c, "key", "value")
    /\ found' = [found EXCEPT ![c].entry = SlotOf(found[c].index, @, key[@])]
    /\ UNCHANGED <<counters, blockIndex, contents, places, producer, ticket,
                   element, history>>

LoadBlock(c) ==
    /\ Goto(c, "value", "move")
    /\ found' = [found EXCEPT ![c].block = value[found[c].entry]]
    /\ UNCHANGED <<counters, blockIndex, contents, places, producer, ticket,
                   element, history>>

\* The element is moved out and destroyed.
MoveElement(c) ==
    LET b == found[c].block
        i == Cell(found[c].index)
    IN  /\ Goto(c, "move", "empty")
        /\ element' = [element EXCEPT ![c] = elements[b][i]]
        /\ elements' = [elements EXCEPT ![b][i] = NoMessage]
        /\ UNCHANGED <<counters, blockIndex, elementsCompletelyDequeued,
                       places, producer, ticket, found, history>>

\* Block::set_empty; whoever empties the block last gives it back.
SetEmpty(c) ==
    LET b == found[c].block
        last == LastOfBlock(elementsCompletelyDequeued[b])
    IN  /\ Goto(c, "empty", IF last THEN "unlink" ELSE "idle")
        /\ IF last THEN Keep ELSE Return(c)
        /\ elementsCompletelyDequeued' =
              [elementsCompletelyDequeued EXCEPT ![b] = @ + 1]
        /\ UNCHANGED <<counters, blockIndex, elements, places, producer,
                       history>>

\* Faulty variant: the block stays in the index while it is given back.
BugUnlinkBlock(c) ==
    /\ Goto(c, "unlink", "free") /\ Keep
    /\ UNCHANGED <<counters, blockIndex, contents, places, producer, history>>

\* entry->value = nullptr
UnlinkBlock(c) ==
    /\ Goto(c, "unlink", "free") /\ Keep
    /\ value' = [value EXCEPT ![found[c].entry] = Null]
    /\ UNCHANGED <<counters, indexTail, key, contents, places, producer,
                   history>>

\* add_block_to_free_list
FreeBlock(c) ==
    /\ Goto(c, "free", "idle") /\ Return(c)
    /\ freeing' = freeing \cup {found[c].block}
    /\ UNCHANGED <<counters, blockIndex, contents, pool, other, producer,
                   history>>

Consumer(c) ==
    \/ LoadTail(c) \/ LoadOvercommit(c) \/ CheckAvailable(c) \/ TakeTicket(c)
    \/ Recheck(c) \/ GiveUp(c) \/ Claim(c) \/ LoadIndexTail(c) \/ LookUpSlot(c)
    \/ LoadBlock(c) \/ MoveElement(c) \/ SetEmpty(c) \/ UnlinkBlock(c)
    \/ FreeBlock(c)

-----------------------------------------------------------------------------
(* The rest of the pool *)

\* A block given back becomes takeable: FreeList::add links it itself, or
\* leaves that to the thread that holds the last reference to it.
Settle(b) ==
    /\ b \in freeing
    /\ freeing' = freeing \ {b}
    /\ pool' = pool \cup {b}
    /\ UNCHANGED <<counters, blockIndex, contents, other, producer, consumer,
                   history>>

\* Another producer's sub-queue takes a block ...
OtherTakes(b) ==
    /\ b \in pool
    /\ pool' = pool \ {b}
    /\ other' = other \cup {b}
    /\ UNCHANGED <<counters, blockIndex, contents, freeing, producer,
                   consumer, history>>

\* ... and its consumer gives it back, with every element dequeued.
OtherReturns(b) ==
    /\ b \in other
    /\ other' = other \ {b}
    /\ freeing' = freeing \cup {b}
    /\ elementsCompletelyDequeued' =
          [elementsCompletelyDequeued EXCEPT ![b] = BlockSize]
    /\ UNCHANGED <<counters, blockIndex, elements, pool, producer, consumer,
                   history>>

-----------------------------------------------------------------------------
(* ~ImplicitProducer, with the queue: every call has returned *)

AllReturned == ppc = "idle" /\ \A c \in Consumers : pc[c] = "idle"

\* The waiting elements, and the cell each is destroyed in.
Waiting == headIndex .. tailIndex - 1
BlockAt(i) == value[SlotOf(i, indexTail, key[indexTail])]
Doomed == {<<BlockAt(i), Cell(i)>> : i \in Waiting}

\* The loop frees a block when it enters the next one, so never the last one.
FreedByLoop == {BlockAt(i) : i \in {j \in Waiting : Base(j) < Base(tailIndex - 1)}}

\* Faulty variant: the tail block is freed only when elements wait in it.
BugFreedAfterLoop == IF Waiting # {} THEN {tailBlock} ELSE {}

\* The tail block goes last.  In an empty sub-queue it is still there, unless it
\* was used up: then whoever dequeued its last element has freed it.
FreedAfterLoop ==
    IF tailBlock # Null /\ (Waiting # {} \/ Cell(tailIndex) # 0) THEN {tailBlock}
                                                                ELSE {}

\* The elements still waiting are destroyed, and the blocks and the index freed.
Destroy ==
    /\ AllReturned
    /\ ppc' = "destroyed"
    /\ elements' =
          [b \in Blocks |-> [i \in Cells |->
              IF <<b, i>> \in Doomed THEN NoMessage ELSE elements[b][i]]]
    /\ freeing' = freeing \cup FreedByLoop \cup FreedAfterLoop
    /\ value' = [s \in Slots |-> Null]
    /\ tailBlock' = Null
    /\ UNCHANGED <<counters, indexTail, key, elementsCompletelyDequeued, pool,
                   other, newBlock, consumer, history>>

Next ==
    \/ Producer
    \/ \E c \in Consumers : Consumer(c)
    \/ \E b \in Blocks : Settle(b) \/ OtherTakes(b) \/ OtherReturns(b)
    \/ Destroy

Spec == Init /\ [][Next]_vars

\* A thread inside a call is scheduled until the call returns, and a block on its
\* way back to the pool arrives.  Starting a call is the application's choice.
Fairness ==
    /\ WF_vars(Producer /\ ppc # "idle")
    /\ \A c \in Consumers : WF_vars(Consumer(c) /\ pc[c] # "idle")
    /\ \A b \in Blocks : WF_vars(Settle(b))

FairSpec == Spec /\ Fairness

-----------------------------------------------------------------------------
(* Properties *)

\* (Only the bulk calls of SubQueueBulk undo anything.)
ProducerSteps == {"idle", "room", "insert", "advance", "requisition", "rewind",
                  "clear", "reset", "publish", "write", "commit", "undo",
                  "undo tail", "destroyed"}
ConsumerSteps == {"idle", "over", "check", "ticket", "recheck", "claim",
                  "giveup", "slot", "key", "value", "move", "empty", "unlink",
                  "free"}

\* The call holds a ticket that is not decided.
Pending(c) == pc[c] \in {"recheck", "claim", "giveup"}

TicketType == [tail : Nat, overcommit : Nat, count : Nat]
FoundType == [index : Nat, entry : Slots, block : Blocks \cup {Null, Garbage}]

\* Type invariant of the sub-queue, the blocks and the threads using them.
TypeOK ==
    /\ tailIndex \in Nat /\ headIndex \in Nat
    /\ dequeueOptimisticCount \in Nat /\ dequeueOvercommit \in Nat
    /\ tailBlock \in Blocks \cup {Null}
    /\ indexTail \in Slots
    /\ key \in [Slots -> Nat]
    /\ value \in [Slots -> Blocks \cup {Null, Garbage}]
    /\ elements \in [Blocks -> [Cells -> Nat]]
    /\ elementsCompletelyDequeued \in [Blocks -> Nat]
    /\ pool \subseteq Blocks /\ other \subseteq Blocks
    /\ freeing \subseteq Blocks \cup {Null, Garbage}
    /\ ppc \in ProducerSteps
    /\ newBlock \in Blocks \cup {Null}
    /\ pc \in [Consumers -> ConsumerSteps]
    /\ ticket \in [Consumers -> TicketType]
    /\ found \in [Consumers -> FoundType]
    /\ won \in SUBSET Nat /\ lost \in SUBSET Nat

\* Claims never overtake the producer.  Consumers race on two counters with
\* values they loaded earlier, and a ticket is decided on an overcommit that is
\* out of date; still the number of claims never exceeds the number of elements
\* ("Guaranteed to be at least one element to dequeue", ExplicitProducer).
HeadNeverPassesTail == headIndex <= tailIndex

\* However late its view of headIndex is, the producer never has more elements
\* in the sub-queue than MAX_SUBQUEUE_SIZE.
SubqueueBound == tailIndex - headIndex <= MaxSubqueue

\* A block is in exactly one place at any time: takeable, on its way back,
\* with another producer, just obtained, linked in the block index, or about to
\* be given back by the consumer that unlinked it.  None leaks, none is shared.
OnePlacePerBlock ==
    \A b \in Blocks :
        Cardinality({p \in {<<1, pool>>, <<2, freeing>>, <<3, other>>,
                            <<4, {newBlock}>>} : b \in p[2]})
        + Cardinality({s \in Slots : value[s] = b})
        + Cardinality({c \in Consumers : pc[c] = "free" /\ found[c].block = b})
        = 1

\* The destructor, whenever it may run, destroys the elements that were constructed
\* and not dequeued and no others, each in its cell, and frees no block twice ("all
\* undequeued elements are placed contiguously across contiguous blocks").
DestructorIsExact ==
    AllReturned =>
        /\ Doomed = {p \in Blocks \X Cells : elements[p[1]][p[2]] # NoMessage}
        /\ FreedByLoop \cap FreedAfterLoop = {}
        /\ FreedByLoop \cup FreedAfterLoop = {value[s] : s \in Slots} \cap Blocks

\* No element is overwritten before it was moved out, through any reuse of its
\* block: a cell's element changes only by being destroyed.
NeverOverwritten ==
    [][\A b \in Blocks : \A i \in Cells :
          elements[b][i] # NoMessage =>
              elements'[b][i] \in {elements[b][i], NoMessage}]_vars

\* "Nothing left" can be relied on unless somebody interferes: a call that returns
\* false has seen everything dequeued that was in the queue as it began, or another
\* consumer holds an undecided ticket, or gave one up during the call.  (rtlog's
\* consumer, which is alone, stops looking at a sub-queue on this answer.)
EmptyMeansDrained ==
    [][\A c \in Consumers :
          pc[c] # "idle" /\ pc'[c] = "idle" /\ element[c] = NoMessage =>
              \/ headIndex >= ticket[c].tail
              \/ \E d \in Consumers \ {c} : Pending(d)
              \/ dequeueOvercommit # ticket[c].overcommit]_vars

\* Every accepted element is claimed, if the queue lives.
Delivered ==
    \A n \in Messages : (tailIndex >= n) ~> (headIndex >= n \/ ppc = "destroyed")

\* Every accepted element is claimed in the end by a consumer that keeps polling
\* without being disturbed for ever, whatever tickets the others gave up before:
\* the overcommit catches up.  (Consumers that keep polling together can make each
\* other give up for ever while elements wait: each passes the check just before
\* the other takes its ticket.)
DeliveredToLoneConsumer ==
    \A c \in Consumers :
        /\ []<>(pc[c] # "idle")
        /\ <>[](\A d \in Consumers \ {c} : pc[d] = "idle")
        => Delivered

\* A block whose elements are all gone comes back for other uses.
EmptiedBlockReturns ==
    \A b \in Blocks :
        (elementsCompletelyDequeued[b] = BlockSize) ~>
            (b \in pool \cup other \/ elementsCompletelyDequeued[b] = 0)

-----------------------------------------------------------------------------
(* Why claims never overtake the producer *)

\* Every increment of dequeueOptimisticCount hands out a ticket.  A ticket is
\* pending, won (its element was claimed) or lost (given up).
Tickets == 0 .. dequeueOptimisticCount - 1
LostBefore(n) == {m \in lost : m < n}

\* headIndex counts the tickets won, dequeueOvercommit those lost.
TicketsCounted ==
    /\ won \subseteq Tickets /\ lost \subseteq Tickets /\ won \cap lost = {}
    /\ headIndex = Cardinality(won)
    /\ dequeueOvercommit = Cardinality(lost)

PendingTickets ==
    \A c \in Consumers : Pending(c) =>
        /\ ticket[c].count \in Tickets \ (won \cup lost)
        /\ \A d \in Consumers \ {c} :
              Pending(d) => ticket[d].count # ticket[c].count

\* The overcommit a ticket is decided with counts only tickets lost before it.
OvercommitIsPast ==
    \A c \in Consumers :
        /\ pc[c] \in {"check", "ticket"} =>
              ticket[c].overcommit <= Cardinality(lost)
        /\ pc[c] = "recheck" =>
              ticket[c].overcommit <= Cardinality(LostBefore(ticket[c].count))

\* A winning ticket leaves room for itself and every earlier one not lost.
Wins(n) == n + 1 - Cardinality(LostBefore(n)) <= tailIndex

WinnersBelowTail ==
    /\ \A c \in Consumers : pc[c] = "claim" => Wins(ticket[c].count)
    /\ \A n \in won : Wins(n)

LastWinner == won = {} \/ \E n \in won : \A m \in won : m <= n

\* The inductive invariant behind HeadNeverPassesTail: the tickets won are, with
\* those lost before the last of them, distinct numbers up to it, and that one
\* wins.  (Consumers load an overcommit that is already out of date.)
TicketInv ==
    /\ TicketsCounted
    /\ PendingTickets
    /\ OvercommitIsPast
    /\ WinnersBelowTail
    /\ LastWinner

\* What a call that returns false relies on: every ticket taken is pending, won or
\* lost, and one that is given up was not below the tail as the call began.
EveryTicketCounts ==
    \A n \in Tickets :
        n \in won \cup lost \/ \E c \in Consumers : Pending(c) /\ ticket[c].count = n

GivenUpBeyond ==
    \A c \in Consumers : pc[c] = "giveup" =>
        ticket[c].tail <= ticket[c].count - ticket[c].overcommit

DrainInv == EveryTicketCounts /\ GivenUpBeyond

\* Why the sub-queue stays within its limit: what an enqueue has established at
\* each of its steps.  A tail in the middle of a block has the rest of that block
\* in reserve, and between blocks nothing is reserved.
RoomInv ==
    /\ Cell(tailIndex) = 0 => tailIndex - headIndex <= MaxSubqueue
    /\ Cell(tailIndex) # 0 \/ ppc \in {"write", "commit"} =>
          tailIndex - headIndex <= MaxSubqueue - BlockSize + Cell(tailIndex)
    /\ ppc \in {"insert", "advance", "requisition", "rewind", "clear", "reset",
               "publish"} => tailIndex - headIndex <= MaxSubqueue - BlockSize
    /\ ppc \notin {"idle", "write", "commit", "destroyed"} => Cell(tailIndex) = 0

-----------------------------------------------------------------------------
(* Why blocks are reused in time, and only then *)

\* Blocks enter the ring one slot after the other, from slot 0; a failed enqueue goes
\* back a slot and leaves its key behind, which the next one overwrites.
SlotAt(i) == (i \div BlockSize) % IndexCap
LastSlot == IF tailIndex = 0 THEN IndexCap - 1 ELSE SlotAt(tailIndex - 1)
InBlock(base) == base .. base + BlockSize - 1

\* The end of the indices that have a block.
Reserved ==
    IF Cell(tailIndex) # 0 \/ ppc \in {"write", "commit"} THEN Base(tailIndex) + BlockSize
                                                         ELSE tailIndex

\* An index is emptied once its consumer has called set_empty for it; before that,
\* from the enqueue to the move, its cell has an element.
InHand(c) == pc[c] \in {"slot", "key", "value", "move", "empty"}
IsEmptied(i) == i < headIndex /\ \A c \in Consumers : InHand(c) => found[c].index # i
Stored(i) ==
    /\ i < tailIndex \/ (i = tailIndex /\ ppc = "commit")
    /\ \/ i >= headIndex
       \/ \E c \in Consumers : /\ pc[c] \in {"slot", "key", "value", "move"}
                              /\ found[c].index = i

Linked == {s \in Slots : value[s] \in Blocks}
InRing == {value[s] : s \in Linked}
Released == {found[c].block : c \in {d \in Consumers : pc[d] = "free"}}

\* A slot keeps the block it has until each of its indices is emptied, and the
\* consumer that emptied the last has unlinked it.
RingRight ==
    /\ indexTail = IF ppc \in {"requisition", "rewind", "reset", "publish", "write",
                               "commit"} THEN SlotAt(tailIndex) ELSE LastSlot
    /\ \A s \in Slots : key[s] # INVALID_BLOCK_BASE =>
          key[s] <= tailIndex /\ Cell(key[s]) = 0 /\ SlotAt(key[s]) = s
    /\ \A i \in 0 .. Reserved - 1 :
          /\ key[SlotAt(i)] # INVALID_BLOCK_BASE
          /\ ~IsEmptied(i) => key[SlotAt(i)] = Base(i) /\ SlotAt(i) \in Linked
          /\ ~IsEmptied(i) /\ i >= Reserved - BlockSize => tailBlock = value[SlotAt(i)]
    /\ \A s \in Linked :
          /\ key[s] # INVALID_BLOCK_BASE /\ key[s] < Reserved
          /\ \/ \E i \in InBlock(key[s]) : ~IsEmptied(i)
             \/ \E c \in Consumers : pc[c] = "unlink" /\ found[c].entry = s

\* What enqueue has at each of its steps.
EnqueueRight ==
    /\ ppc \in {"advance", "requisition", "rewind", "clear", "reset", "publish"} =>
          key[SlotAt(tailIndex)] = tailIndex /\ SlotAt(tailIndex) \notin Linked
    /\ newBlock # Null <=> ppc \in {"reset", "publish"}
    /\ ppc = "publish" => elementsCompletelyDequeued[newBlock] = 0

\* What a consumer has at each step after its claim.
ClaimRight(c) ==
    LET i == found[c].index
        s == found[c].entry
    IN  /\ InHand(c) \/ pc[c] \in {"unlink", "free"} => i < headIndex
        /\ \A d \in Consumers \ {c} : InHand(c) /\ InHand(d) => i # found[d].index
        /\ pc[c] = "key" => key[s] # INVALID_BLOCK_BASE
        /\ pc[c] \in {"value", "move", "empty", "unlink"} => s = SlotAt(i)
        /\ pc[c] \in {"move", "empty", "unlink"} => s \in Linked /\ found[c].block = value[s]
        /\ pc[c] \in {"empty", "unlink", "free"} => element[c] = i + 1
        /\ pc[c] \notin {"empty", "unlink", "free"} => element[c] = NoMessage
        /\ pc[c] = "unlink" =>
              /\ key[s] = Base(i) /\ \A j \in InBlock(key[s]) : IsEmptied(j)
              /\ \A d \in Consumers \ {c} : pc[d] = "unlink" => found[d].entry # s
        /\ pc[c] = "free" =>
              /\ found[c].block \in Blocks
              /\ \A d \in Consumers \ {c} :
                    pc[d] = "free" => found[d].block # found[c].block

\* A block's count is that of its emptied indices, its cells have what waits.
ContentsRight ==
    /\ \A s \in Linked :
          /\ elementsCompletelyDequeued[value[s]]
                = Cardinality({i \in InBlock(key[s]) : IsEmptied(i)})
          /\ \A j \in Cells : elements[value[s]][j] =
                IF Stored(key[s] + j) THEN key[s] + j + 1 ELSE NoMessage
    /\ \A b \in Blocks \ InRing : \A j \in Cells : elements[b][j] = NoMessage

PlacesRight ==
    /\ freeing \subseteq Blocks
    /\ \A s, r \in Linked : value[s] = value[r] => s = r
    /\ \A b \in Blocks :
          \/ b \in pool /\ b \notin freeing \cup other \cup {newBlock} \cup InRing \cup Released
          \/ b \in freeing /\ b \notin pool \cup other \cup {newBlock} \cup InRing \cup Released
          \/ b \in other /\ b \notin pool \cup freeing \cup {newBlock} \cup InRing \cup Released
          \/ b = newBlock /\ b \notin pool \cup freeing \cup other \cup InRing \cup Released
          \/ b \in InRing /\ b \notin pool \cup freeing \cup other \cup {newBlock} \cup Released
          \/ b \in Released /\ b \notin pool \cup freeing \cup other \cup {newBlock} \cup InRing

LayoutInv ==
    /\ ppc # "destroyed" => RingRight
    /\ ppc = "destroyed" => Linked = {} /\ \A c \in Consumers : pc[c] = "idle"
    /\ EnqueueRight
    /\ element \in [Consumers -> Nat] /\ \A c \in Consumers : ClaimRight(c)
    /\ ContentsRight
    /\ PlacesRight

-----------------------------------------------------------------------------
(* What the sub-queue implements *)

\* The sub-queue as a bounded FIFO: what waits is what was accepted and not
\* claimed; a consumer holds the message at its claimed index, then the element
\* it moved out of the block.
Holds(c) ==
    CASE pc[c] \in {"slot", "key", "value", "move"} -> <<found[c].index + 1>>
      [] element[c] # NoMessage -> <<element[c]>>
      [] OTHER -> <<>>

AsFifo ==
    INSTANCE Fifo WITH
        Capacity <- MaxSubqueue,
        queue <- [i \in 1 .. tailIndex - headIndex |-> headIndex + i],
        newest <- tailIndex,
        hand <- [c \in Consumers |-> Holds(c)]

\* The detailed sub-queue implements the bounded FIFO: every element goes to one
\* consumer, in order, found where it was put, also when loads lag behind.
ImplementsFifo == AsFifo!Spec

=============================================================================
