---------------------------- MODULE SubQueueBulk ----------------------------
(***************************************************************************)
(* The sub-queue with its bulk operations, ImplicitProducer::enqueue_bulk  *)
(* and dequeue_bulk, in any mixture with the single ones of SubQueue.      *)
(*                                                                         *)
(* A bulk enqueue puts all the blocks it will need in the block index      *)
(* first, where the consumers already see them, and takes them out again   *)
(* when one of them cannot be had.  A bulk dequeue takes several tickets   *)
(* at once, claims those that win, and walks from block to block.          *)
(***************************************************************************)
EXTENDS SubQueue

CONSTANT BulkSizes      \* bound: how many elements a bulk call asks for

ASSUME BulkAssumption == BulkSizes \subseteq Nat \ {0}

VARIABLES
    \* enqueue_bulk: how many elements, the tail block it began with, the blocks
    \* put in the index so far, and how many of these were taken out again
    batch,
    \* dequeue_bulk, per consumer: how many tickets it asks for at most, takes,
    \* and wins, its first index, the elements moved out
    grab

bulkVars == <<vars, batch, grab>>

NoBatch == [count |-> 0, start |-> Null, chain |-> <<>>, undone |-> 0]
NoGrab == [max |-> 0, desired |-> 0, actual |-> 0, first |-> 0, out |-> <<>>]

BulkInit == Init /\ batch = NoBatch /\ grab = [c \in Consumers |-> NoGrab]

Min2(a, b) == IF a < b THEN a ELSE b

-----------------------------------------------------------------------------
(* enqueue_bulk, with CannotAlloc *)

\* Where the k-th block of the chain begins; before the first element of all the
\* code counts from -BLOCK_SIZE.
ChainBase(k) == Base(tailIndex - 1) + BlockSize * k
NextBase == ChainBase(Len(batch.chain) + 1)
LastBase(n) == Base(tailIndex + n - 1)

BulkStart(n) ==
    /\ ppc = "idle" /\ tailIndex + n <= MaxElements
    /\ batch' = [NoBatch EXCEPT !.count = n, !.start = tailBlock]
    /\ ppc' = IF ChainBase(0) = LastBase(n) THEN "write" ELSE "room"
    /\ UNCHANGED <<counters, blockIndex, contents, places, newBlock,
                   tailBlock, consumer, history, grab>>

HasRoomFor(start, head) ==
    /\ head < start + BlockSize
    /\ start - head <= MaxSubqueue - BlockSize

\* Faulty variant: the blocks already in the index are forgotten.
BugAbort == ppc' = "idle" /\ batch' = NoBatch

\* A block cannot be had: the ones before it are taken out of the index.
Abort ==
    IF batch.chain = <<>> THEN ppc' = "idle" /\ batch' = NoBatch
    ELSE ppc' = "undo" /\ UNCHANGED batch

BulkCheckRoom ==
    /\ ppc = "room" /\ batch # NoBatch
    /\ \E head \in Recent(headIndex) :
          IF HasRoomFor(NextBase, head) THEN ppc' = "insert" /\ UNCHANGED batch
          ELSE Abort
    /\ UNCHANGED <<counters, blockIndex, contents, places, newBlock,
                   tailBlock, consumer, history, grab>>

BulkInsertKey ==
    /\ ppc = "insert" /\ batch # NoBatch /\ SlotReusable(NextSlot)
    /\ key' = [key EXCEPT ![NextSlot] = NextBase]
    /\ ppc' = "advance"
    /\ UNCHANGED <<counters, indexTail, value, contents, places, newBlock,
                   tailBlock, consumer, history, batch, grab>>

BulkInsertRefused ==
    /\ ppc = "insert" /\ batch # NoBatch
    /\ \/ ~SlotReusable(NextSlot)
       \/ StaleWindow > 0 /\ key[NextSlot] # INVALID_BLOCK_BASE
    /\ Abort
    /\ UNCHANGED <<counters, blockIndex, contents, places, newBlock,
                   tailBlock, consumer, history, grab>>

\* The slot of a block that was not available.
BulkClearEntry ==
    /\ ppc = "clear" /\ batch # NoBatch
    /\ value' = [value EXCEPT ![NextSlot] = Null]
    /\ Abort
    /\ UNCHANGED <<counters, indexTail, key, contents, places, newBlock,
                   tailBlock, consumer, history, grab>>

\* The block enters the index and the chain.
BulkPublish ==
    /\ ppc = "publish" /\ batch # NoBatch
    /\ value' = [value EXCEPT ![indexTail] = newBlock]
    /\ tailBlock' = newBlock /\ newBlock' = Null
    /\ batch' = [batch EXCEPT !.chain = Append(@, newBlock)]
    /\ ppc' = IF NextBase = LastBase(batch.count) THEN "write" ELSE "room"
    /\ UNCHANGED <<counters, indexTail, key, contents, places, consumer,
                   history, grab>>

\* Undoing, from the first block of the chain on: the block is looked up and its
\* slot cleared ...
UndoEntry ==
    /\ ppc = "undo" /\ batch.undone < Len(batch.chain)
    /\ LET slot == SlotOf(ChainBase(batch.undone + 1), indexTail, key[indexTail])
       IN  value' = [value EXCEPT ![slot] = Null]
    /\ batch' = [batch EXCEPT !.undone = @ + 1]
    /\ ppc' = "undo tail"
    /\ UNCHANGED <<counters, indexTail, key, contents, places, newBlock,
                   tailBlock, consumer, history, grab>>

\* ... and the tail of the index goes back by one.
UndoTail ==
    /\ ppc = "undo tail"
    /\ indexTail' = PrevSlot
    /\ ppc' = "undo"
    /\ UNCHANGED <<counters, key, value, contents, places, newBlock,
                   tailBlock, consumer, history, batch, grab>>

ChainBlocks == {batch.chain[k] : k \in DOMAIN batch.chain}

\* add_blocks_to_free_list; the tail block is the one it was.
UndoBlocks ==
    /\ ppc = "undo" /\ batch.undone = Len(batch.chain)
    /\ freeing' = freeing \cup ChainBlocks
    /\ tailBlock' = batch.start
    /\ batch' = NoBatch
    /\ ppc' = "idle"
    /\ UNCHANGED <<counters, blockIndex, contents, pool, other, newBlock,
                   consumer, history, grab>>

\* The block that element i of the batch goes to.
BatchBlock(i) ==
    IF Base(i) = ChainBase(0) THEN batch.start
    ELSE batch.chain[(Base(i) - ChainBase(0)) \div BlockSize]

\* The elements are constructed, block after block; nobody looks at them yet.
BulkWrite ==
    LET new == tailIndex .. tailIndex + batch.count - 1 IN
    /\ ppc = "write" /\ batch # NoBatch
    /\ elements' =
          [b \in Blocks |-> [j \in Cells |->
              LET here == {i \in new : BatchBlock(i) = b /\ Cell(i) = j}
              IN  IF here = {} THEN elements[b][j] ELSE (CHOOSE i \in here : TRUE) + 1]]
    /\ ppc' = "commit"
    /\ UNCHANGED <<counters, blockIndex, elementsCompletelyDequeued, places,
                   newBlock, tailBlock, consumer, history, batch, grab>>

BulkCommit ==
    /\ ppc = "commit" /\ batch # NoBatch
    /\ tailIndex' = tailIndex + batch.count
    /\ batch' = NoBatch
    /\ ppc' = "idle"
    /\ UNCHANGED <<headIndex, dequeueOptimisticCount, dequeueOvercommit,
                   blockIndex, contents, places, newBlock, tailBlock,
                   consumer, history, grab>>

\* What a bulk call does for a block as a single call does.
SharedEnqueueStep ==
    AdvanceIndex \/ Requisition \/ RequisitionFails \/ RewindIndex \/ ResetEmpty

BulkProducer ==
    \/ /\ \/ batch = NoBatch /\ Producer
          \/ batch # NoBatch /\ SharedEnqueueStep
       /\ UNCHANGED <<batch, grab>>
    \/ \E n \in BulkSizes : BulkStart(n)
    \/ BulkCheckRoom \/ BulkInsertKey \/ BulkInsertRefused \/ BulkClearEntry
    \/ BulkPublish \/ UndoEntry \/ UndoTail \/ UndoBlocks \/ BulkWrite \/ BulkCommit

-----------------------------------------------------------------------------
(* dequeue_bulk *)

\* The call begins.
BulkLoadTail(c, n) ==
    /\ LoadTail(c)
    /\ grab' = [grab EXCEPT ![c] = [NoGrab EXCEPT !.max = n]]
    /\ UNCHANGED batch

BulkReturn(c) == Return(c) /\ grab' = [grab EXCEPT ![c] = NoGrab]

\* Loads dequeueOptimisticCount, and asks for no more than seems left.
BulkCheckAvailable(c) ==
    /\ grab[c].max > 0
    /\ \E n \in Recent(dequeueOptimisticCount) :
          LET left == ticket[c].tail - (n - ticket[c].overcommit) IN
          \/ /\ left > 0
             /\ Goto(c, "check", "ticket") /\ Keep
             /\ grab' = [grab EXCEPT ![c].desired = Min2(left, grab[c].max)]
          \/ /\ left <= 0
             /\ Goto(c, "check", "idle") /\ BulkReturn(c)
    /\ UNCHANGED <<counters, blockIndex, contents, places, producer, history, batch>>

\* dequeueOptimisticCount.fetch_add(desiredCount)
TakeTickets(c) ==
    /\ grab[c].max > 0 /\ Goto(c, "ticket", "recheck")
    /\ ticket' = [ticket EXCEPT ![c].count = dequeueOptimisticCount]
    /\ dequeueOptimisticCount' = dequeueOptimisticCount + grab[c].desired
    /\ UNCHANGED <<tailIndex, headIndex, dequeueOvercommit, blockIndex,
                   contents, places, producer, found, element, history, batch, grab>>

\* Faulty variant: what is left is not a bound for what is claimed.
BugWinning(c, left) == IF left > 0 THEN grab[c].desired ELSE 0

\* How many of the tickets win.
Winning(c, left) == IF left > 0 THEN Min2(grab[c].desired, left) ELSE 0

\* Loads tailIndex again and decides the tickets, with the old overcommit.
BulkRecheck(c) ==
    /\ grab[c].max > 0
    /\ \E t \in RecentSince(tailIndex, ticket[c].tail) :
          LET actual == Winning(c, t - (ticket[c].count - ticket[c].overcommit)) IN
          /\ Goto(c, "recheck", IF actual < grab[c].desired THEN "giveup" ELSE "claim")
          /\ grab' = [grab EXCEPT ![c].actual = actual]
    /\ Keep
    /\ UNCHANGED <<counters, blockIndex, contents, places, producer, history, batch>>

TicketsOf(c, from, to) == ticket[c].count + from .. ticket[c].count + to - 1

\* dequeueOvercommit.fetch_add: the tickets that do not win are given up.
BulkGiveUp(c) ==
    /\ grab[c].max > 0
    /\ IF grab[c].actual > 0 THEN Goto(c, "giveup", "claim") /\ Keep /\ UNCHANGED grab
       ELSE Goto(c, "giveup", "idle") /\ BulkReturn(c)
    /\ dequeueOvercommit' = dequeueOvercommit + grab[c].desired - grab[c].actual
    /\ lost' = lost \cup TicketsOf(c, grab[c].actual, grab[c].desired)
    /\ UNCHANGED <<tailIndex, headIndex, dequeueOptimisticCount, blockIndex,
                   contents, places, producer, won, batch>>

\* headIndex.fetch_add(actualCount)
BulkClaim(c) ==
    /\ grab[c].max > 0 /\ Goto(c, "claim", "slot")
    /\ found' = [found EXCEPT ![c].index = headIndex]
    /\ grab' = [grab EXCEPT ![c].first = headIndex]
    /\ headIndex' = headIndex + grab[c].actual
    /\ won' = won \cup TicketsOf(c, 0, grab[c].actual)
    /\ UNCHANGED <<tailIndex, dequeueOptimisticCount, dequeueOvercommit,
                   blockIndex, contents, places, producer, ticket, element,
                   lost, batch>>

\* The index after the elements moved so far, and after the last one claimed.
MovedTo(c) == grab[c].first + Len(grab[c].out)
ClaimedTo(c) == grab[c].first + grab[c].actual

\* The claimed elements of this block are moved out and destroyed.
MoveElements(c) ==
    LET b == found[c].block
        from == found[c].index
        to == Min2(Base(from) + BlockSize, ClaimedTo(c))
    IN  /\ grab[c].max > 0 /\ Goto(c, "move", "empty") /\ Keep
        /\ grab' = [grab EXCEPT ![c].out =
                       @ \o [k \in 1 .. to - from |-> elements[b][Cell(from) + k - 1]]]
        /\ elements' = [elements EXCEPT ![b] =
                           [i \in Cells |-> IF Base(from) + i \in from .. to - 1
                                            THEN NoMessage ELSE @[i]]]
        /\ UNCHANGED <<counters, blockIndex, elementsCompletelyDequeued, places,
                       producer, ticket, history, batch>>

\* Faulty variant: the block after is looked for in the same slot.
BugOnward(c, at) ==
    IF MovedTo(c) = ClaimedTo(c) THEN Goto(c, at, "idle") /\ BulkReturn(c)
    ELSE /\ Goto(c, at, "value")
         /\ found' = [found EXCEPT ![c].index = MovedTo(c)]
         /\ UNCHANGED <<ticket, element, grab>>

\* To the block in the next slot, or back to the caller.
Onward(c, at) ==
    IF MovedTo(c) = ClaimedTo(c) THEN Goto(c, at, "idle") /\ BulkReturn(c)
    ELSE /\ Goto(c, at, "value")
         /\ found' = [found EXCEPT ![c].index = MovedTo(c),
                                   ![c].entry = (@ + 1) % IndexCap]
         /\ UNCHANGED <<ticket, element, grab>>

Emptied(c) == MovedTo(c) - found[c].index

\* Faulty variant: only a block emptied in one go is given back.
BugFullyEmptied(c) == Emptied(c) = BlockSize

FullyEmptied(c) == elementsCompletelyDequeued[found[c].block] + Emptied(c) = BlockSize

\* Block::set_many_empty; whoever empties the block last gives it back.
SetManyEmpty(c) ==
    /\ grab[c].max > 0 /\ pc[c] = "empty"
    /\ IF FullyEmptied(c) THEN Goto(c, "empty", "unlink") /\ Keep /\ UNCHANGED grab
       ELSE Onward(c, "empty")
    /\ elementsCompletelyDequeued' =
          [elementsCompletelyDequeued EXCEPT ![found[c].block] = @ + Emptied(c)]
    /\ UNCHANGED <<counters, blockIndex, elements, places, producer, history, batch>>

BulkFreeBlock(c) ==
    /\ grab[c].max > 0 /\ Onward(c, "free")
    /\ freeing' = freeing \cup {found[c].block}
    /\ UNCHANGED <<counters, blockIndex, contents, pool, other, producer, history, batch>>

SharedDequeueStep(c) ==
    LoadOvercommit(c) \/ LoadIndexTail(c) \/ LookUpSlot(c) \/ LoadBlock(c)
    \/ UnlinkBlock(c)

BulkConsumer(c) ==
    \/ /\ \/ grab[c] = NoGrab /\ Consumer(c)
          \/ grab[c] # NoGrab /\ SharedDequeueStep(c)
       /\ UNCHANGED <<batch, grab>>
    \/ \E n \in BulkSizes : BulkLoadTail(c, n)
    \/ BulkCheckAvailable(c) \/ TakeTickets(c) \/ BulkRecheck(c) \/ BulkGiveUp(c)
    \/ BulkClaim(c) \/ MoveElements(c) \/ SetManyEmpty(c) \/ BulkFreeBlock(c)

-----------------------------------------------------------------------------
PoolStep ==
    /\ \/ \E b \in Blocks : Settle(b) \/ OtherTakes(b) \/ OtherReturns(b)
       \/ Destroy
    /\ UNCHANGED <<batch, grab>>

BulkNext == BulkProducer \/ (\E c \in Consumers : BulkConsumer(c)) \/ PoolStep

BulkSpec == BulkInit /\ [][BulkNext]_bulkVars

-----------------------------------------------------------------------------
(* Properties *)

BatchType == [count : BulkSizes \cup {0}, start : Blocks \cup {Null},
              chain : Seq(Blocks), undone : Nat]
GrabType == [max : BulkSizes \cup {0}, desired : Nat, actual : Nat, first : Nat,
             out : Seq(Nat)]

\* Type invariant: that of SubQueue, and the bulk calls.
BulkTypeOK ==
    /\ TypeOK
    /\ batch \in BatchType /\ batch.undone <= Len(batch.chain)
    /\ grab \in [Consumers -> GrabType]

\* Claimed elements are found and destroyed where they are, in whatever order
\* single and bulk calls insert, undo and reuse slots: the asserts of
\* get_block_index_index_for_index and of set_many_empty.  A bulk dequeue looks up
\* only its first block: the others must follow slot by slot.
BulkAccessesAreSound ==
    \A c \in Consumers :
        LET f == found[c] IN
        /\ pc[c] = "key" => key[f.entry] # INVALID_BLOCK_BASE
        /\ pc[c] = "value" => /\ key[f.entry] = Base(f.index)
                              /\ value[f.entry] \in Blocks
        /\ pc[c] = "empty" =>
              elementsCompletelyDequeued[f.block]
              + (IF grab[c] = NoGrab THEN 1 ELSE Emptied(c)) <= BlockSize
        /\ pc[c] = "unlink" => value[f.entry] = f.block

\* The blocks of a chain that were taken out of the index again.
Undone == {batch.chain[k] : k \in 1 .. batch.undone}

\* A block is in exactly one place at any time, those of a bulk enqueue that is
\* being undone included.  None leaks, none is shared.
BulkOnePlacePerBlock ==
    \A b \in Blocks :
        Cardinality({p \in {<<1, pool>>, <<2, freeing>>, <<3, other>>,
                            <<4, {newBlock}>>, <<5, Undone>>} : b \in p[2]})
        + Cardinality({s \in Slots : value[s] = b})
        + Cardinality({c \in Consumers : pc[c] = "free" /\ found[c].block = b})
        = 1

\* An enqueue that failed, a bulk one at any of its blocks, leaves no trace in what
\* consumers count from.  Between calls of the producer the index links no block after
\* the one of the last element, and while it links any, its tail is that one.  (With
\* every block given back, the key of the tail may be an abandoned one.)  The slot
\* after it is refused to the next call only while a block is linked there.
AbortLeavesNoTrace ==
    ppc = "idle" =>
        /\ \A s \in Slots : value[s] \in Blocks =>
              key[s] < tailIndex /\ key[indexTail] = Base(tailIndex - 1)
        /\ SlotReusable(NextSlot) \/ value[NextSlot] \in Blocks

\* A bulk consumer holds what it moved out, then what it has claimed.
BulkHolds(c) ==
    IF grab[c] = NoGrab THEN Holds(c)
    ELSE grab[c].out \o [k \in 1 .. ClaimedTo(c) - MovedTo(c) |-> MovedTo(c) + k]

HasClaimed(c) ==
    pc[c] \in {"slot", "key", "value", "move", "empty", "unlink", "free"}

AsBulkFifo ==
    INSTANCE Fifo WITH
        Capacity <- MaxSubqueue,
        queue <- [i \in 1 .. tailIndex - headIndex |-> headIndex + i],
        newest <- tailIndex,
        hand <- [c \in Consumers |-> IF HasClaimed(c) THEN BulkHolds(c) ELSE <<>>]

\* With bulk calls too the sub-queue implements the bounded FIFO: a batch enters
\* whole or not at all, and what a bulk dequeue takes is contiguous and in order.
BulkImplementsFifo == AsBulkFifo!Spec

-----------------------------------------------------------------------------
(* Why the counters stay right *)

\* How many tickets a call holds before it claims, how many of them win, and those
\* it holds.
Asked(c) == IF grab[c] = NoGrab THEN 1 ELSE grab[c].desired
Granted(c) ==
    IF grab[c] # NoGrab THEN grab[c].actual ELSE IF pc[c] = "claim" THEN 1 ELSE 0
HeldTickets(c) == TicketsOf(c, 0, IF pc[c] = "claim" THEN Granted(c) ELSE Asked(c))

BulkPendingTickets ==
    \A c \in Consumers : Pending(c) =>
        /\ HeldTickets(c) \subseteq Tickets \ (won \cup lost)
        /\ \A d \in Consumers \ {c} :
              Pending(d) => HeldTickets(d) \cap HeldTickets(c) = {}

BulkWinnersBelowTail ==
    /\ \A c \in Consumers : pc[c] \in {"claim", "giveup"} =>
          \A n \in TicketsOf(c, 0, Granted(c)) : Wins(n)
    /\ \A n \in won : Wins(n)

\* What a bulk dequeue has at each of its steps.
GrabRight(c) ==
    /\ pc[c] = "idle" => grab[c] = NoGrab
    /\ grab[c] # NoGrab =>
          /\ grab[c].max > 0
          /\ pc[c] \notin {"over", "check"} => grab[c].desired > 0
          /\ pc[c] = "giveup" => grab[c].actual < grab[c].desired
          /\ pc[c] = "claim" => grab[c].actual <= grab[c].desired
          /\ pc[c] \notin {"over", "check", "ticket", "recheck", "giveup"} =>
                grab[c].actual > 0
          /\ pc[c] \in {"over", "check", "ticket", "recheck", "giveup", "claim"} =>
                grab[c].out = <<>>

\* The inductive invariant of the counters: TicketInv for several tickets a call.
BulkTicketInv ==
    /\ TicketsCounted
    /\ BulkPendingTickets
    /\ OvercommitIsPast
    /\ BulkWinnersBelowTail
    /\ LastWinner
    /\ \A c \in Consumers : GrabRight(c)

\* What either kind of enqueue has established about the room left.
BulkRoomInv ==
    LET limit == headIndex + MaxSubqueue IN
    /\ ChainBase(0) + BlockSize <= limit
    /\ batch = NoBatch =>
          /\ ppc \in {"insert", "advance", "requisition", "rewind", "clear", "reset",
                     "publish"} => tailIndex + BlockSize <= limit
          /\ ppc \in {"write", "commit"} => Base(tailIndex) + BlockSize <= limit
    /\ batch # NoBatch =>
          /\ ppc \in {"insert", "advance", "requisition", "reset", "publish"} =>
                NextBase + BlockSize <= limit
          /\ ppc \in {"write", "commit"} => LastBase(batch.count) + BlockSize <= limit

-----------------------------------------------------------------------------
(* Why blocks stay where they are looked for: blocks are numbered as they are used *)

\* How many blocks the elements have come to, and how many are in the index.
Filled == (tailIndex + BlockSize - 1) \div BlockSize
Top ==
    Filled + IF batch # NoBatch THEN Len(batch.chain)
             ELSE IF Cell(tailIndex) = 0 /\ ppc \in {"write", "commit"} THEN 1 ELSE 0
Place(p) == p % IndexCap

\* How far the tail of the index is ahead, or has gone back.
Shift ==
    IF ppc \in {"requisition", "rewind", "reset", "publish"} THEN 1
    ELSE IF ppc = "undo tail" THEN 1 - batch.undone ELSE -batch.undone

Inserting ==
    ppc \in {"advance", "requisition", "rewind", "clear", "reset", "publish"}

\* The claimed indices of a call end before Until, those moved out before Front.
Until(c) == IF grab[c] = NoGrab THEN found[c].index + 1 ELSE ClaimedTo(c)
Front(c) == IF grab[c] = NoGrab THEN found[c].index + 1 ELSE MovedTo(c)

\* The claimed indices whose cells are not counted as empty yet.
Unemptied(c) ==
    IF InHand(c) THEN found[c].index .. Until(c) - 1
    ELSE IF pc[c] \in {"unlink", "free"} THEN Front(c) .. Until(c) - 1 ELSE {}
NotEmptied(i) == i >= headIndex \/ \E c \in Consumers : i \in Unemptied(c)

\* A block is needed while an index of it is not emptied, unless it was undone.
Needed(p) ==
    /\ \E j \in Cells : NotEmptied(BlockSize * p + j)
    /\ ~(Filled <= p /\ p < Filled + batch.undone)

BatchRight ==
    /\ ppc \in {"idle", "destroyed"} => batch = NoBatch
    /\ ppc \in {"undo", "undo tail"} => batch # NoBatch /\ batch.chain # <<>>
    /\ ppc \notin {"undo", "undo tail"} => batch.undone = 0
    /\ ppc = "undo tail" => batch.undone > 0
    /\ batch = NoBatch /\ (Inserting \/ ppc \in {"room", "insert"}) => Cell(tailIndex) = 0
    /\ batch # NoBatch => batch.count > 0
    /\ batch # NoBatch /\ ppc \in {"write", "commit"} =>
          ChainBase(Len(batch.chain)) = LastBase(batch.count)

\* What a consumer has after its claim.
BulkClaimRight(c) ==
    LET i == found[c].index
        s == found[c].entry
    IN  /\ HasClaimed(c) => i < Until(c) /\ Until(c) <= headIndex
        /\ pc[c] \in {"slot", "key", "value", "move"} /\ grab[c] # NoGrab => MovedTo(c) = i
        /\ pc[c] \in {"empty", "unlink", "free"} =>
              Front(c) = Min2(Base(i) + BlockSize, Until(c))
        /\ \A d \in Consumers \ {c} : Unemptied(c) \cap Unemptied(d) = {}
        /\ pc[c] = "key" => key[s] # INVALID_BLOCK_BASE
        /\ pc[c] \in {"value", "move", "empty", "unlink", "free"} => s = SlotAt(i)
        /\ pc[c] \in {"move", "empty", "unlink"} => s \in Linked /\ found[c].block = value[s]
        /\ pc[c] = "unlink" =>
              /\ key[s] = Base(i) /\ \A j \in Cells : ~NotEmptied(Base(i) + j)
              /\ \A d \in Consumers \ {c} : pc[d] = "unlink" => found[d].entry # s
        /\ pc[c] = "free" =>
              /\ found[c].block \in Blocks
              /\ \A d \in Consumers \ {c} :
                    pc[d] = "free" => found[d].block # found[c].block

\* A key may be an abandoned one, but it belongs to its slot.
KeysInPlace ==
    \A s \in Slots : key[s] # INVALID_BLOCK_BASE =>
        key[s] % BlockSize = 0 /\ Place(key[s] \div BlockSize) = s

\* A needed block is linked where it is looked for ...
NeededLinked ==
    \A p \in 0 .. Top - 1 :
        /\ key[Place(p)] # INVALID_BLOCK_BASE
        /\ Needed(p) => key[Place(p)] = BlockSize * p /\ Place(p) \in Linked

\* ... and a linked one is needed, or about to be unlinked.
Unlinking(s) == \E c \in Consumers : pc[c] = "unlink" /\ found[c].entry = s
LinkedNeeded ==
    \A s \in Linked : \E p \in 0 .. Top - 1 :
        key[s] = BlockSize * p /\ s = Place(p) /\ (Needed(p) \/ Unlinking(s))

\* While a block is linked, a chain does not come round to the last key before it.
LastKeyKept ==
    \A s \in Linked :
        key[s] < BlockSize * Filled => key[Place(Filled - 1)] = BlockSize * (Filled - 1)

ChainInPlace ==
    \A k \in batch.undone + 1 .. Len(batch.chain) :
        value[Place(Filled + k - 1)] = batch.chain[k]

\* The tail block, and the one that undoing goes back to.
TailRight ==
    /\ Filled > 0 /\ Needed(Filled - 1) /\ batch # NoBatch =>
          batch.start = value[Place(Filled - 1)]
    /\ Top > 0 /\ Needed(Top - 1) /\ batch = NoBatch => tailBlock = value[Place(Top - 1)]
    /\ batch # NoBatch /\ ppc \notin {"undo", "undo tail"} =>
          tailBlock = IF batch.chain = <<>> THEN batch.start
                                            ELSE batch.chain[Len(batch.chain)]

IndexRight ==
    /\ indexTail = Place(Top - 1 + Shift)
    /\ KeysInPlace /\ NeededLinked /\ LinkedNeeded /\ LastKeyKept /\ ChainInPlace
    /\ TailRight

\* A slot whose value was never written is not used, and the new block's is.
SlotsRight ==
    /\ Inserting => key[Place(Top)] = BlockSize * Top /\ Place(Top) \notin Linked
    /\ \A s \in Slots : value[s] = Garbage =>
          key[s] = INVALID_BLOCK_BASE \/ (Inserting /\ s = Place(Top))
    /\ newBlock # Null <=> ppc \in {"reset", "publish"}

\* A block's count is that of its cells emptied.
CountsRight ==
    /\ ppc = "publish" => elementsCompletelyDequeued[newBlock] = 0
    /\ \A s \in Linked : elementsCompletelyDequeued[value[s]] =
          Cardinality({j \in Cells : ~NotEmptied(key[s] + j)})

BulkPlacesRight ==
    /\ freeing \subseteq Blocks
    /\ \A s, r \in Linked : value[s] = value[r] => s = r
    /\ Blocks \subseteq pool \cup freeing \cup other \cup {newBlock} \cup InRing
                        \cup Released \cup Undone
    /\ pool \cap (freeing \cup other \cup {newBlock} \cup InRing \cup Released \cup Undone) = {}
    /\ freeing \cap (other \cup {newBlock} \cup InRing \cup Released \cup Undone) = {}
    /\ other \cap ({newBlock} \cup InRing \cup Released \cup Undone) = {}
    /\ newBlock \notin InRing \cup Released \cup Undone
    /\ InRing \cap (Released \cup Undone) = {}
    /\ Released \cap Undone = {}

\* The inductive invariant of the blocks.
BulkLayoutInv ==
    /\ BatchRight
    /\ \A c \in Consumers : BulkClaimRight(c)
    /\ SlotsRight /\ CountsRight /\ BulkPlacesRight
    /\ ppc # "destroyed" => IndexRight
    /\ ppc = "destroyed" => Linked = {} /\ \A c \in Consumers : pc[c] = "idle"

-----------------------------------------------------------------------------
(* Why elements stay where they were put *)

\* The claimed indices whose elements were not moved out yet, and the end of those
\* that were written.
ToMove(c) == IF pc[c] = "empty" THEN Front(c) .. Until(c) - 1 ELSE Unemptied(c)
Written ==
    tailIndex + IF ppc # "commit" THEN 0 ELSE IF batch = NoBatch THEN 1 ELSE batch.count
BulkStored(i) ==
    (headIndex <= i /\ i < Written) \/ \E c \in Consumers : i \in ToMove(c)

\* A cell has what waits in it: element i + 1 at index i.
CellsRight ==
    /\ \A s \in Linked : \A j \in Cells :
          elements[value[s]][j] = IF BulkStored(key[s] + j) THEN key[s] + j + 1 ELSE NoMessage
    /\ \A b \in Blocks \ InRing : \A j \in Cells : elements[b][j] = NoMessage

\* What a consumer moved out is what it claimed.
MovedRight(c) ==
    /\ element[c] = IF grab[c] = NoGrab /\ pc[c] \in {"empty", "unlink", "free"}
                    THEN found[c].index + 1 ELSE NoMessage
    /\ \A k \in DOMAIN grab[c].out : grab[c].out[k] = grab[c].first + k

\* The inductive invariant of the elements.
BulkElementsInv ==
    CellsRight /\ element \in [Consumers -> Nat] /\ \A c \in Consumers : MovedRight(c)

=============================================================================
