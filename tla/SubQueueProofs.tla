--------------------------- MODULE SubQueueProofs ---------------------------
(***************************************************************************)
(* Theorems about SubQueue, for every number of consumers and of blocks    *)
(* and every size the assumptions allow: its counters and limits, then its *)
(* blocks, which are each in one place and never used again too early, the *)
(* destructor, and that the sub-queue is a bounded FIFO.                   *)
(***************************************************************************)
EXTENDS SubQueue, FiniteSetTheorems, TLAPS

-----------------------------------------------------------------------------
(* Types *)

\* Positions in the ring of the block index stay positions.
LEMMA ModInRange ==
    ASSUME NEW a \in Int, NEW n \in Nat, n > 0
    PROVE  a % n \in 0 .. n - 1
  OBVIOUS

LEMMA RingPositions ==
    ASSUME TypeOK
    PROVE  /\ NextSlot \in Slots /\ PrevSlot \in Slots
           /\ \A i \in Nat, s \in Slots, k \in Nat : SlotOf(i, s, k) \in Slots
           /\ \A i \in Nat : Cell(i) \in Cells
  <1> USE SizeAssumption DEF TypeOK, Slots, Cells
  <1>1. IndexCap \in Nat /\ IndexCap > 0 /\ BlockSize \in Nat /\ BlockSize > 0
    OBVIOUS
  <1>2. NextSlot \in Slots
    BY <1>1, ModInRange DEF NextSlot
  <1>3. PrevSlot \in Slots
    BY <1>1, ModInRange DEF PrevSlot
  <1>4. ASSUME NEW i \in Nat PROVE Cell(i) \in Cells
    BY <1>1, ModInRange DEF Cell
  <1>5. ASSUME NEW i \in Nat, NEW s \in Slots, NEW k \in Nat
        PROVE  SlotOf(i, s, k) \in Slots
    <2>1. Base(i) - k \in Int
      BY <1>4 DEF Base, Cell
    <2>2. (Base(i) - k) \div BlockSize \in Int
      BY <2>1, <1>1
    <2>3. s + ((Base(i) - k) \div BlockSize) \in Int
      BY <2>2
    <2> QED
      BY <2>3, <1>1, ModInRange DEF SlotOf
  <1> QED
    BY <1>2, <1>3, <1>4, <1>5



LEMMA LoadsAreNatural ==
    ASSUME NEW x \in Nat
    PROVE  Recent(x) \subseteq 0 .. x
  BY SizeAssumption DEF Recent

\* Locals keep their types when a field is assigned, and when a call returns.
LEMMA TicketUpdates ==
    ASSUME NEW t \in [Consumers -> TicketType], NEW c \in Consumers, NEW n \in Nat
    PROVE  /\ [t EXCEPT ![c].tail = n] \in [Consumers -> TicketType]
           /\ [t EXCEPT ![c].overcommit = n] \in [Consumers -> TicketType]
           /\ [t EXCEPT ![c].count = n] \in [Consumers -> TicketType]
           /\ [t EXCEPT ![c] = NoTicket] \in [Consumers -> TicketType]
  BY DEF TicketType, NoTicket

LEMMA FoundUpdates ==
    ASSUME NEW f \in [Consumers -> FoundType], NEW c \in Consumers
    PROVE  /\ \A i \in Nat :
                 [f EXCEPT ![c].index = i] \in [Consumers -> FoundType]
           /\ \A s \in Slots :
                 [f EXCEPT ![c].entry = s] \in [Consumers -> FoundType]
           /\ \A b \in Blocks \cup {Null, Garbage} :
                 [f EXCEPT ![c].block = b] \in [Consumers -> FoundType]
           /\ [f EXCEPT ![c] = NotFound] \in [Consumers -> FoundType]
  <1>1. 0 \in Slots
    BY SizeAssumption DEF Slots
  <1> QED
    BY <1>1 DEF FoundType, NotFound

\* Counting in one entry, whether or not it is in the domain.
LEMMA CountInEntry ==
    ASSUME NEW S, NEW f \in [S -> Nat], NEW g, NEW b,
           g = [f EXCEPT ![b] = f[b] + 1]
    PROVE  g \in [S -> Nat]
  <1>1. ASSUME NEW x \in S PROVE [f EXCEPT ![b] = f[b] + 1][x] \in Nat
    OBVIOUS
  <1>2. g = [x \in S |-> [f EXCEPT ![b] = f[b] + 1][x]]
    BY Zenon
  <1> QED
    BY <1>1, <1>2

LEMMA InitTypes == Init => TypeOK
  BY SizeAssumption, PointerAssumption
     DEF Init, TypeOK, Slots, Cells, NoTicket, NotFound, NoMessage,
         INVALID_BLOCK_BASE, ProducerSteps, ConsumerSteps,
         TicketType, FoundType

LEMMA GotoTypes ==
    ASSUME pc \in [Consumers -> ConsumerSteps], NEW c \in Consumers, NEW from,
           NEW to \in ConsumerSteps, Goto(c, from, to)
    PROVE  pc' \in [Consumers -> ConsumerSteps]
  BY DEF Goto

LEMMA ReturnTypes ==
    ASSUME ticket \in [Consumers -> TicketType],
           found \in [Consumers -> FoundType], NEW c \in Consumers, Return(c)
    PROVE  /\ ticket' \in [Consumers -> TicketType]
           /\ found' \in [Consumers -> FoundType]
  BY TicketUpdates, FoundUpdates DEF Return

LEMMA StepTypes == TypeOK /\ [Next]_vars => TypeOK'
  <1> SUFFICES ASSUME TypeOK, [Next]_vars PROVE TypeOK'
    OBVIOUS
  <1> USE DEF counters, blockIndex, contents, places, producer, consumer, history
  <1>1. CASE EnqueueStart
    BY <1>1 DEF EnqueueStart, TypeOK, ProducerSteps
  <1>2. CASE CheckRoom
    BY <1>2 DEF CheckRoom, TypeOK, ProducerSteps
  <1>3. CASE InsertKey
    BY <1>3, RingPositions DEF InsertKey, TypeOK, ProducerSteps
  <1>4. CASE InsertRefused
    BY <1>4 DEF InsertRefused, TypeOK, ProducerSteps
  <1>5. CASE AdvanceIndex
    BY <1>5, RingPositions DEF AdvanceIndex, TypeOK, ProducerSteps
  <1>6. CASE Requisition
    BY <1>6 DEF Requisition, TypeOK, ProducerSteps
  <1>7. CASE RequisitionFails
    BY <1>7 DEF RequisitionFails, TypeOK, ProducerSteps
  <1>8. CASE RewindIndex
    BY <1>8, RingPositions DEF RewindIndex, TypeOK, ProducerSteps
  <1>9. CASE ClearEntry
    BY <1>9, RingPositions DEF ClearEntry, TypeOK, ProducerSteps
  <1>10. CASE ResetEmpty
    BY <1>10 DEF ResetEmpty, TypeOK, ProducerSteps
  <1>11. CASE PublishBlock
    BY <1>11 DEF PublishBlock, TypeOK, ProducerSteps
  <1>12. CASE WriteElement
    <2>1. elements \in [Blocks -> [Cells -> Nat]] /\ tailIndex \in Nat
      BY DEF TypeOK
    <2> DEFINE i == Cell(tailIndex)
               n == tailIndex + 1
    <2>2. elements' = [elements EXCEPT ![tailBlock][i] = n] /\ n \in Nat
      BY <1>12, <2>1 DEF WriteElement
    <2> HIDE DEF i, n
    <2>3. elements' \in [Blocks -> [Cells -> Nat]]
      BY <2>1, <2>2
    <2> QED
      BY <1>12, <2>3 DEF WriteElement, TypeOK, ProducerSteps
  <1>13. CASE Commit
    BY <1>13 DEF Commit, TypeOK, ProducerSteps
  <1>14. ASSUME NEW c \in Consumers, LoadTail(c) PROVE TypeOK'
    <2>1. pc' \in [Consumers -> ConsumerSteps]
      BY <1>14, GotoTypes DEF LoadTail, TypeOK, ConsumerSteps
    <2>2. PICK n \in Recent(tailIndex) : ticket' = [ticket EXCEPT ![c].tail = n]
      BY <1>14 DEF LoadTail
    <2>3. n \in Nat
      BY LoadsAreNatural DEF TypeOK
    <2>4. ticket' \in [Consumers -> TicketType]
      BY <2>2, <2>3, TicketUpdates DEF TypeOK
    <2> QED
      BY <1>14, <2>1, <2>4 DEF LoadTail, TypeOK
  <1>15. ASSUME NEW c \in Consumers, LoadOvercommit(c) PROVE TypeOK'
    <2>1. pc' \in [Consumers -> ConsumerSteps]
      BY <1>15, GotoTypes DEF LoadOvercommit, TypeOK, ConsumerSteps
    <2>2. PICK n \in Recent(dequeueOvercommit) : ticket' = [ticket EXCEPT ![c].overcommit = n]
      BY <1>15 DEF LoadOvercommit
    <2>3. n \in Nat
      BY LoadsAreNatural DEF TypeOK
    <2>4. ticket' \in [Consumers -> TicketType]
      BY <2>2, <2>3, TicketUpdates DEF TypeOK
    <2> QED
      BY <1>15, <2>1, <2>4 DEF LoadOvercommit, TypeOK
  <1>16. ASSUME NEW c \in Consumers, CheckAvailable(c) PROVE TypeOK'
    <2>1. pc' \in [Consumers -> ConsumerSteps]
      BY <1>16, GotoTypes DEF CheckAvailable, TypeOK, ConsumerSteps
    <2>2. /\ ticket' \in [Consumers -> TicketType]
          /\ found' \in [Consumers -> FoundType]
      BY <1>16, ReturnTypes DEF CheckAvailable, TypeOK, Keep
    <2> QED
      BY <1>16, <2>1, <2>2 DEF CheckAvailable, TypeOK
  <1>17. ASSUME NEW c \in Consumers, TakeTicket(c) PROVE TypeOK'
    <2>1. pc' \in [Consumers -> ConsumerSteps]
      BY <1>17, GotoTypes DEF TakeTicket, TypeOK, ConsumerSteps
    <2>2. ticket' \in [Consumers -> TicketType]
      BY <1>17, TicketUpdates DEF TakeTicket, TypeOK
    <2> QED
      BY <1>17, <2>1, <2>2 DEF TakeTicket, TypeOK
  <1>18. ASSUME NEW c \in Consumers, Recheck(c) PROVE TypeOK'
    <2>1. pc' \in [Consumers -> ConsumerSteps]
      BY <1>18, GotoTypes DEF Recheck, TypeOK, ConsumerSteps
    <2> QED
      BY <1>18, <2>1 DEF Recheck, TypeOK, Keep
  <1>19. ASSUME NEW c \in Consumers, GiveUp(c) PROVE TypeOK'
    <2>1. pc' \in [Consumers -> ConsumerSteps]
      BY <1>19, GotoTypes DEF GiveUp, TypeOK, ConsumerSteps
    <2>2. /\ ticket' \in [Consumers -> TicketType]
          /\ found' \in [Consumers -> FoundType]
      BY <1>19, ReturnTypes DEF GiveUp, TypeOK
    <2>3. lost' \in SUBSET Nat
      BY <1>19 DEF GiveUp, TypeOK, TicketType
    <2> QED
      BY <1>19, <2>1, <2>2, <2>3 DEF GiveUp, TypeOK
  <1>20. ASSUME NEW c \in Consumers, Claim(c) PROVE TypeOK'
    <2>1. pc' \in [Consumers -> ConsumerSteps]
      BY <1>20, GotoTypes DEF Claim, TypeOK, ConsumerSteps
    <2>2. found' \in [Consumers -> FoundType]
      BY <1>20, FoundUpdates DEF Claim, TypeOK
    <2> QED
      BY <1>20, <2>1, <2>2 DEF Claim, TypeOK, TicketType
  <1>21. ASSUME NEW c \in Consumers, LoadIndexTail(c) PROVE TypeOK'
    <2>1. pc' \in [Consumers -> ConsumerSteps]
      BY <1>21, GotoTypes DEF LoadIndexTail, TypeOK, ConsumerSteps
    <2>2. found' \in [Consumers -> FoundType]
      BY <1>21, FoundUpdates DEF LoadIndexTail, TypeOK
    <2> QED
      BY <1>21, <2>1, <2>2 DEF LoadIndexTail, TypeOK
  <1>22. ASSUME NEW c \in Consumers, LookUpSlot(c) PROVE TypeOK'
    <2>1. pc' \in [Consumers -> ConsumerSteps]
      BY <1>22, GotoTypes DEF LookUpSlot, TypeOK, ConsumerSteps
    <2>2. found[c].index \in Nat /\ found[c].entry \in Slots
      BY DEF TypeOK, FoundType
    <2>3. key[found[c].entry] \in Nat
      BY <2>2 DEF TypeOK
    <2> DEFINE s == SlotOf(found[c].index, found[c].entry, key[found[c].entry])
    <2>4. s \in Slots
      BY <2>2, <2>3, RingPositions
    <2>5. found' = [found EXCEPT ![c].entry = s]
      BY <1>22, <2>2 DEF LookUpSlot, TypeOK, FoundType
    <2> HIDE DEF s
    <2>6. found' \in [Consumers -> FoundType]
      BY <2>4, <2>5, FoundUpdates DEF TypeOK
    <2> QED
      BY <1>22, <2>1, <2>6 DEF LookUpSlot, TypeOK
  <1>23. ASSUME NEW c \in Consumers, LoadBlock(c) PROVE TypeOK'
    <2>1. pc' \in [Consumers -> ConsumerSteps]
      BY <1>23, GotoTypes DEF LoadBlock, TypeOK, ConsumerSteps
    <2>2. value[found[c].entry] \in Blocks \cup {Null, Garbage}
      BY DEF TypeOK, FoundType
    <2>3. found' \in [Consumers -> FoundType]
      BY <1>23, <2>2, FoundUpdates DEF LoadBlock, TypeOK
    <2> QED
      BY <1>23, <2>1, <2>3 DEF LoadBlock, TypeOK
  <1>24. ASSUME NEW c \in Consumers, MoveElement(c) PROVE TypeOK'
    <2>1. pc' \in [Consumers -> ConsumerSteps]
      BY <1>24, GotoTypes DEF MoveElement, TypeOK, ConsumerSteps
    <2>2. elements' \in [Blocks -> [Cells -> Nat]]
      BY <1>24 DEF MoveElement, TypeOK, NoMessage
    <2> QED
      BY <1>24, <2>1, <2>2 DEF MoveElement, TypeOK
  <1>25. ASSUME NEW c \in Consumers, SetEmpty(c) PROVE TypeOK'
    <2>1. pc' \in [Consumers -> ConsumerSteps]
      BY <1>25, GotoTypes DEF SetEmpty, TypeOK, ConsumerSteps
    <2>2. /\ ticket' \in [Consumers -> TicketType]
          /\ found' \in [Consumers -> FoundType]
      BY <1>25, ReturnTypes DEF SetEmpty, TypeOK, Keep
    <2> DEFINE b == found[c].block
    <2>3. elementsCompletelyDequeued' =
             [elementsCompletelyDequeued EXCEPT
                 ![b] = elementsCompletelyDequeued[b] + 1]
      BY <1>25 DEF SetEmpty
    <2> HIDE DEF b
    <2>4. elementsCompletelyDequeued \in [Blocks -> Nat]
      BY DEF TypeOK
    <2>5. elementsCompletelyDequeued' \in [Blocks -> Nat]
      BY <2>3, <2>4, CountInEntry
    <2> QED
      BY <1>25, <2>1, <2>2, <2>5 DEF SetEmpty, TypeOK, Keep, Return
  <1>26. ASSUME NEW c \in Consumers, UnlinkBlock(c) PROVE TypeOK'
    <2>1. pc' \in [Consumers -> ConsumerSteps]
      BY <1>26, GotoTypes DEF UnlinkBlock, TypeOK, ConsumerSteps
    <2> QED
      BY <1>26, <2>1 DEF UnlinkBlock, TypeOK, Keep
  <1>27. ASSUME NEW c \in Consumers, FreeBlock(c) PROVE TypeOK'
    <2>1. pc' \in [Consumers -> ConsumerSteps]
      BY <1>27, GotoTypes DEF FreeBlock, TypeOK, ConsumerSteps
    <2>2. /\ ticket' \in [Consumers -> TicketType]
          /\ found' \in [Consumers -> FoundType]
      BY <1>27, ReturnTypes DEF FreeBlock, TypeOK
    <2>3. found[c].block \in Blocks \cup {Null, Garbage}
      BY DEF TypeOK, FoundType
    <2> QED
      BY <1>27, <2>1, <2>2, <2>3 DEF FreeBlock, TypeOK
  <1>28. ASSUME NEW b \in Blocks, Settle(b) PROVE TypeOK'
    BY <1>28 DEF Settle, TypeOK
  <1>29. ASSUME NEW b \in Blocks, OtherTakes(b) PROVE TypeOK'
    BY <1>29 DEF OtherTakes, TypeOK
  <1>30. ASSUME NEW b \in Blocks, OtherReturns(b) PROVE TypeOK'
    BY <1>30, SizeAssumption DEF OtherReturns, TypeOK
  <1>31. CASE Destroy
    <2>1. \A j \in Waiting : BlockAt(j) \in Blocks \cup {Null, Garbage}
      <3>1. Waiting \subseteq Nat
        BY DEF Waiting, TypeOK
      <3>2. indexTail \in Slots /\ key[indexTail] \in Nat
        BY DEF TypeOK
      <3>3. \A j \in Waiting : SlotOf(j, indexTail, key[indexTail]) \in Slots
        BY <3>1, <3>2, RingPositions
      <3> QED
        BY <3>3 DEF BlockAt, TypeOK
    <2>2. FreedByLoop \subseteq Blocks \cup {Null, Garbage}
      BY <2>1 DEF FreedByLoop
    <2>3. FreedAfterLoop \subseteq Blocks \cup {Null, Garbage}
      BY DEF FreedAfterLoop, TypeOK
    <2>4. freeing' \subseteq Blocks \cup {Null, Garbage}
      BY <1>31, <2>2, <2>3 DEF Destroy, TypeOK
    <2>5. elements' \in [Blocks -> [Cells -> Nat]]
      BY <1>31 DEF Destroy, TypeOK, NoMessage
    <2>6. value' \in [Slots -> Blocks \cup {Null, Garbage}]
      BY <1>31 DEF Destroy
    <2> QED
      BY <1>31, <2>4, <2>5, <2>6 DEF Destroy, TypeOK, ProducerSteps
  <1>32. CASE UNCHANGED vars
    BY <1>32 DEF vars, TypeOK
  <1> QED
    BY <1>1, <1>2, <1>3, <1>4, <1>5, <1>6, <1>7, <1>8, <1>9, <1>10,
       <1>11, <1>12, <1>13, <1>14, <1>15, <1>16, <1>17, <1>18, <1>19, <1>20,
       <1>21, <1>22, <1>23, <1>24, <1>25, <1>26, <1>27, <1>28, <1>29, <1>30,
       <1>31, <1>32
       DEF Next, Producer, Consumer

\* The counters are natural numbers, the positions stay in the ring, the locals
\* and the pools keep their types: TypeOK, for any instance.
THEOREM TypeCorrect == Spec => []TypeOK
  BY InitTypes, StepTypes, PTL DEF Spec

-----------------------------------------------------------------------------
(* Claims never overtake the producer *)

\* The steps of a dequeue between loading the overcommit and deciding.
Deciding == {"check", "ticket", "recheck", "claim", "giveup"}

LEMMA TicketSetsFinite ==
    ASSUME TypeOK, TicketsCounted
    PROVE  /\ IsFiniteSet(won) /\ IsFiniteSet(lost)
           /\ Cardinality(won) \in Nat /\ Cardinality(lost) \in Nat
           /\ won \subseteq Nat /\ lost \subseteq Nat
  <1>1. IsFiniteSet(Tickets)
    BY FS_Interval DEF Tickets, TypeOK
  <1>2. IsFiniteSet(won) /\ IsFiniteSet(lost)
    BY <1>1, FS_Subset DEF TicketsCounted
  <1> QED
    BY <1>2, FS_CardinalityType DEF TicketsCounted, TypeOK

LEMMA LostBeforeCounts ==
    ASSUME TypeOK, TicketsCounted, NEW n \in Nat
    PROVE  /\ Cardinality(LostBefore(n)) \in Nat
           /\ Cardinality(LostBefore(n)) <= Cardinality(lost)
  <1>1. LostBefore(n) \subseteq lost /\ IsFiniteSet(lost)
    BY TicketSetsFinite DEF LostBefore
  <1> QED
    BY <1>1, FS_Subset, FS_CardinalityType

\* The counting argument, on plain sets: distinct numbers up to M.
LEMMA WinnersAreFew ==
    ASSUME NEW W \in SUBSET Nat, NEW L \in SUBSET Nat, NEW tail \in Nat,
           IsFiniteSet(L), W \cap L = {}, NEW M \in W, \A m \in W : m <= M,
           M + 1 - Cardinality({m \in L : m < M}) <= tail
    PROVE  Cardinality(W) <= tail
  <1> DEFINE P == {m \in L : m < M}
  <1>1. W \cup P \subseteq 0 .. M
    <2>1. ASSUME NEW x \in W PROVE x \in 0 .. M
      OBVIOUS
    <2>2. ASSUME NEW x \in P PROVE x \in 0 .. M
      OBVIOUS
    <2> QED
      BY <2>1, <2>2
  <1>2. IsFiniteSet(0 .. M) /\ Cardinality(0 .. M) = M + 1
    BY FS_Interval
  <1>3. IsFiniteSet(W) /\ IsFiniteSet(P)
    BY <1>1, <1>2, FS_Subset
  <1>4. Cardinality(W) \in Nat /\ Cardinality(P) \in Nat
    BY <1>3, FS_CardinalityType
  <1>5. W \cap P = {}
    OBVIOUS
  <1>6. Cardinality(W \cup P) = Cardinality(W) + Cardinality(P)
    <2>1. Cardinality({}) = 0
      BY FS_EmptySet
    <2> QED
      BY <1>3, <1>4, <1>5, <2>1, FS_Union
  <1>7. Cardinality(W \cup P) <= M + 1
    BY <1>1, <1>2, FS_Subset
  <1> HIDE DEF P
  <1>8. M + 1 - Cardinality(P) <= tail
    BY DEF P
  <1> QED
    BY <1>4, <1>6, <1>7, <1>8

\* TicketInv bounds the claims.
LEMMA ClaimsBounded == TypeOK /\ TicketInv => HeadNeverPassesTail
  <1> SUFFICES ASSUME TypeOK, TicketInv PROVE headIndex <= tailIndex
    BY DEF HeadNeverPassesTail
  <1>1. /\ won \in SUBSET Nat /\ lost \in SUBSET Nat
        /\ IsFiniteSet(lost) /\ won \cap lost = {} /\ tailIndex \in Nat
        /\ headIndex = Cardinality(won)
    BY TicketSetsFinite DEF TicketInv, TicketsCounted, TypeOK
  <1>2. CASE won = {}
    BY <1>1, <1>2, FS_EmptySet
  <1>3. CASE won # {}
    <2>1. PICK M \in won : \A m \in won : m <= M
      BY <1>3 DEF TicketInv, LastWinner
    <2>2. M + 1 - Cardinality({m \in lost : m < M}) <= tailIndex
      BY <2>1 DEF TicketInv, WinnersBelowTail, Wins, LostBefore
    <2> QED
      BY <1>1, <2>1, <2>2, WinnersAreFew
  <1> QED
    BY <1>2, <1>3

LEMMA InitTickets == Init => TicketInv
  BY FS_EmptySet
     DEF Init, TicketInv, TicketsCounted, PendingTickets, Pending,
         OvercommitIsPast, WinnersBelowTail, LastWinner

\* A step that neither moves the ticket counters nor lets a consumer begin to
\* decide keeps the invariant; the producer may have advanced.
LEMMA QuietSteps ==
    ASSUME TypeOK, TicketInv, tailIndex' \in Nat, tailIndex' >= tailIndex,
           UNCHANGED <<headIndex, dequeueOptimisticCount, dequeueOvercommit,
                       won, lost>>,
           \A c \in Consumers : \/ pc'[c] = pc[c] /\ ticket'[c] = ticket[c]
                                \/ pc'[c] \notin Deciding
    PROVE  TicketInv'
  <1> USE DEF TicketInv, Deciding
  <1>1. TicketsCounted' /\ LastWinner'
    BY DEF TicketsCounted, Tickets, LastWinner
  <1>2. PendingTickets'
    BY DEF PendingTickets, Pending, Tickets
  <1>3. OvercommitIsPast'
    BY DEF OvercommitIsPast, LostBefore
  <1>4. ASSUME NEW n \in Nat, Wins(n) PROVE Wins(n)'
    <2>1. Cardinality(LostBefore(n)) \in Nat
      BY LostBeforeCounts
    <2>2. LostBefore(n)' = LostBefore(n)
      BY DEF LostBefore
    <2> QED
      BY <1>4, <2>1, <2>2 DEF Wins, TypeOK
  <1>5. WinnersBelowTail'
    BY <1>4, TicketSetsFinite DEF WinnersBelowTail, TypeOK, TicketType
  <1> QED
    BY <1>1, <1>2, <1>3, <1>5

\* Loading the overcommit: it counts some of the tickets lost so far.
LEMMA LoadOvercommitKeeps ==
    ASSUME TypeOK, TicketInv, NEW c \in Consumers, LoadOvercommit(c)
    PROVE  TicketInv'
  <1> USE DEF TicketInv
  <1>1. PICK o \in Recent(dequeueOvercommit) :
           ticket' = [ticket EXCEPT ![c].overcommit = o]
    BY DEF LoadOvercommit
  <1>2. o \in Nat /\ o <= Cardinality(lost)
    BY LoadsAreNatural DEF TypeOK, TicketsCounted
  <1>3. /\ pc' = [pc EXCEPT ![c] = "check"] /\ pc[c] = "over"
        /\ UNCHANGED <<counters, won, lost>>
    BY DEF LoadOvercommit, Goto, history
  <1>4. /\ \A d \in Consumers \ {c} : pc'[d] = pc[d] /\ ticket'[d] = ticket[d]
        /\ pc'[c] = "check" /\ ticket'[c].overcommit = o
    BY <1>1, <1>2, <1>3 DEF TypeOK, TicketType
  <1>5. TicketsCounted' /\ LastWinner'
    BY <1>3 DEF TicketsCounted, LastWinner, Tickets, counters
  <1>6. PendingTickets'
    BY <1>3, <1>4 DEF PendingTickets, Pending, Tickets, counters
  <1>7. OvercommitIsPast'
    BY <1>2, <1>3, <1>4 DEF OvercommitIsPast, LostBefore
  <1>8. WinnersBelowTail'
    BY <1>3, <1>4 DEF WinnersBelowTail, Wins, LostBefore, counters
  <1> QED
    BY <1>5, <1>6, <1>7, <1>8

\* A new ticket is above all earlier ones, so every lost one is below it.
LEMMA TakeTicketKeeps ==
    ASSUME TypeOK, TicketInv, NEW c \in Consumers, TakeTicket(c)
    PROVE  TicketInv'
  <1> DEFINE n == dequeueOptimisticCount
  <1>1. /\ pc' = [pc EXCEPT ![c] = "recheck"] /\ pc[c] = "ticket"
        /\ ticket' = [ticket EXCEPT ![c].count = n]
        /\ dequeueOptimisticCount' = n + 1 /\ n \in Nat
        /\ UNCHANGED <<tailIndex, headIndex, dequeueOvercommit, won, lost>>
    BY DEF TakeTicket, Goto, history, TypeOK
  <1>2. /\ \A d \in Consumers \ {c} : pc'[d] = pc[d] /\ ticket'[d] = ticket[d]
        /\ pc'[c] = "recheck" /\ ticket'[c].count = n
        /\ ticket'[c].overcommit = ticket[c].overcommit
    BY <1>1 DEF TypeOK, TicketType
  <1> HIDE DEF n
  <1>3. Tickets = 0 .. n - 1 /\ Tickets' = 0 .. n
    BY <1>1 DEF Tickets, n
  <1>4. won \subseteq 0 .. n - 1 /\ lost \subseteq 0 .. n - 1
    BY <1>3 DEF TicketInv, TicketsCounted
  <1>5. TicketsCounted' /\ LastWinner'
    BY <1>1, <1>3, <1>4 DEF TicketInv, TicketsCounted, LastWinner
  <1>6. PendingTickets'
    <2>1. \A d \in Consumers : Pending(d) =>
             /\ ticket[d].count \in (0 .. n - 1) \ (won \cup lost)
             /\ \A e \in Consumers \ {d} :
                   Pending(e) => ticket[e].count # ticket[d].count
      BY <1>3 DEF TicketInv, PendingTickets
    <2>2. n \in (0 .. n) \ (won \cup lost)
      BY <1>1, <1>4
    <2> QED
      BY <1>1, <1>2, <1>3, <2>1, <2>2 DEF PendingTickets, Pending
  <1>7. OvercommitIsPast'
    <2>1. {m \in lost : m < n} = lost
      BY <1>1, <1>4
    <2>2. ticket[c].overcommit <= Cardinality(lost)
      BY <1>1 DEF TicketInv, OvercommitIsPast
    <2>3. {m \in lost' : m < ticket'[c].count} = lost
      BY <1>1, <1>2, <2>1
    <2>4. ticket'[c].overcommit <=
             Cardinality({m \in lost' : m < ticket'[c].count})
      BY <1>2, <2>2, <2>3
    <2> QED
      BY <1>1, <1>2, <2>4 DEF TicketInv, OvercommitIsPast, LostBefore
  <1>8. WinnersBelowTail'
    BY <1>1, <1>2 DEF TicketInv, WinnersBelowTail, Wins, LostBefore
  <1> QED
    BY <1>5, <1>6, <1>7, <1>8 DEF TicketInv

\* The decision: below the tail with an overcommit that counts only earlier
\* losses, the ticket wins; otherwise it will be given up.
LEMMA RecheckKeeps ==
    ASSUME TypeOK, TicketInv, NEW c \in Consumers, Recheck(c)
    PROVE  TicketInv'
  <1> DEFINE n == ticket[c].count
             o == ticket[c].overcommit
  <1>1. PICK t \in Recent(tailIndex) :
           pc' = [pc EXCEPT ![c] = IF Below(n, o, t) THEN "claim" ELSE "giveup"]
    BY DEF Recheck, Goto, RecentSince
  <1>2. /\ pc[c] = "recheck"
        /\ UNCHANGED <<counters, ticket, won, lost>>
    BY DEF Recheck, Goto, Keep, history
  <1>3. /\ \A d \in Consumers \ {c} : pc'[d] = pc[d]
        /\ pc'[c] = IF Below(n, o, t) THEN "claim" ELSE "giveup"
    BY <1>1 DEF TypeOK
  <1>4. n \in Nat /\ o \in Nat /\ t \in Nat /\ t <= tailIndex /\ tailIndex \in Nat
    BY LoadsAreNatural DEF TypeOK, TicketType
  <1>5. TicketsCounted' /\ LastWinner'
    BY <1>2 DEF TicketInv, TicketsCounted, LastWinner, Tickets, counters
  <1>6. PendingTickets'
    BY <1>2, <1>3 DEF TicketInv, PendingTickets, Pending, Tickets, counters
  <1>7. OvercommitIsPast'
    BY <1>2, <1>3 DEF TicketInv, OvercommitIsPast, LostBefore
  <1>8. \A m : Wins(m)' <=> Wins(m)
    BY <1>2 DEF Wins, LostBefore, counters
  <1>9. ASSUME pc'[c] = "claim" PROVE Wins(n)
    <2>1. n - o < t
      BY <1>3, <1>9 DEF Below
    <2>2. o <= Cardinality(LostBefore(n)) /\ Cardinality(LostBefore(n)) \in Nat
      BY <1>2, <1>4, LostBeforeCounts DEF TicketInv, OvercommitIsPast
    <2> HIDE DEF n, o
    <2> QED
      BY <1>4, <2>1, <2>2 DEF Wins
  <1> HIDE DEF o
  <1>10. WinnersBelowTail'
    BY <1>2, <1>3, <1>8, <1>9 DEF TicketInv, WinnersBelowTail
  <1> QED
    BY <1>5, <1>6, <1>7, <1>10 DEF TicketInv

\* A ticket given up is lost: what was lost before others only grows.
LEMMA GiveUpKeeps ==
    ASSUME TypeOK, TicketInv, NEW c \in Consumers, GiveUp(c)
    PROVE  TicketInv'
  <1> DEFINE n == ticket[c].count
  <1>1. /\ pc' = [pc EXCEPT ![c] = "idle"] /\ pc[c] = "giveup"
        /\ ticket' = [ticket EXCEPT ![c] = NoTicket]
        /\ dequeueOvercommit' = dequeueOvercommit + 1
        /\ lost' = lost \cup {n} /\ n \in Nat
        /\ UNCHANGED <<tailIndex, headIndex, dequeueOptimisticCount, won>>
    BY DEF GiveUp, Goto, Return, TypeOK, TicketType
  <1>2. /\ \A d \in Consumers \ {c} : pc'[d] = pc[d] /\ ticket'[d] = ticket[d]
        /\ pc'[c] = "idle"
    BY <1>1 DEF TypeOK
  <1>3. n \in Tickets \ (won \cup lost)
    BY <1>1 DEF TicketInv, PendingTickets, Pending
  <1>4. \A d \in Consumers \ {c} : Pending(d) => ticket[d].count # n
    BY <1>1 DEF TicketInv, PendingTickets, Pending
  <1> HIDE DEF n
  <1>5. IsFiniteSet(lost) /\ Cardinality(lost) \in Nat /\ lost \subseteq Nat
    BY TicketSetsFinite DEF TicketInv
  <1>6. IsFiniteSet(lost') /\ Cardinality(lost') = Cardinality(lost) + 1
    BY <1>1, <1>3, <1>5, FS_AddElement
  <1>7. TicketsCounted' /\ LastWinner'
    BY <1>1, <1>3, <1>6 DEF TicketInv, TicketsCounted, LastWinner, Tickets
  <1>8. PendingTickets'
    BY <1>1, <1>2, <1>4 DEF TicketInv, PendingTickets, Pending, Tickets
  <1>9. ASSUME NEW m \in Nat
        PROVE  /\ Cardinality({x \in lost : x < m}) \in Nat
               /\ Cardinality({x \in lost' : x < m}) \in Nat
               /\ Cardinality({x \in lost : x < m})
                     <= Cardinality({x \in lost' : x < m})
    <2>1. /\ {x \in lost : x < m} \subseteq {x \in lost' : x < m}
          /\ {x \in lost' : x < m} \subseteq lost'
      BY <1>1
    <2>2. IsFiniteSet({x \in lost' : x < m})
      BY <1>6, <2>1, FS_Subset
    <2> QED
      BY <2>1, <2>2, FS_Subset, FS_CardinalityType
  <1>10. \A d \in Consumers : ticket[d].overcommit \in Nat /\ ticket[d].count \in Nat
    BY DEF TypeOK, TicketType
  <1>11. OvercommitIsPast'
    <2>1. ASSUME NEW d \in Consumers, d # c, pc[d] = "recheck"
          PROVE  ticket[d].overcommit <=
                    Cardinality({x \in lost' : x < ticket[d].count})
      <3> DEFINE k == ticket[d].count
                 before == Cardinality({x \in lost : x < k})
                 after == Cardinality({x \in lost' : x < k})
      <3>1. before \in Nat /\ after \in Nat /\ before <= after
        BY <1>9, <1>10
      <3>2. ticket[d].overcommit <= before
        BY <2>1 DEF TicketInv, OvercommitIsPast, LostBefore
      <3> HIDE DEF before, after
      <3>3. ticket[d].overcommit <= after
        BY <3>1, <3>2, <1>10
      <3> QED
        BY <3>3 DEF after
    <2>2. ASSUME NEW d \in Consumers, pc[d] \in {"check", "ticket"}
          PROVE  ticket[d].overcommit <= Cardinality(lost')
      BY <2>2, <1>5, <1>6, <1>10 DEF TicketInv, OvercommitIsPast
    <2> QED
      BY <1>2, <2>1, <2>2 DEF OvercommitIsPast, LostBefore
  <1>12. ASSUME NEW m \in Nat, Wins(m)
         PROVE  m + 1 - Cardinality({x \in lost' : x < m}) <= tailIndex
    <2> DEFINE before == Cardinality({x \in lost : x < m})
               after == Cardinality({x \in lost' : x < m})
    <2>1. before \in Nat /\ after \in Nat /\ before <= after
      BY <1>9
    <2>2. m + 1 - before <= tailIndex
      BY <1>12 DEF Wins, LostBefore
    <2> HIDE DEF before, after
    <2>3. m + 1 - after <= tailIndex
      BY <2>1, <2>2 DEF TypeOK
    <2> QED
      BY <2>3 DEF after
  <1>13. WinnersBelowTail'
    <2>1. won \subseteq Nat
      BY DEF TypeOK
    <2> QED
      BY <1>1, <1>2, <1>10, <1>12, <2>1
         DEF TicketInv, WinnersBelowTail, Wins, LostBefore
  <1> QED
    BY <1>7, <1>8, <1>11, <1>13 DEF TicketInv

\* A claim turns a winning ticket into a ticket won.
LEMMA ClaimKeeps ==
    ASSUME TypeOK, TicketInv, NEW c \in Consumers, Claim(c)
    PROVE  TicketInv'
  <1> DEFINE n == ticket[c].count
  <1>1. /\ pc' = [pc EXCEPT ![c] = "slot"] /\ pc[c] = "claim"
        /\ headIndex' = headIndex + 1
        /\ won' = won \cup {n} /\ n \in Nat
        /\ UNCHANGED <<tailIndex, dequeueOptimisticCount, dequeueOvercommit,
                       ticket, lost>>
    BY DEF Claim, Goto, TypeOK, TicketType
  <1>2. (\A d \in Consumers \ {c} : pc'[d] = pc[d]) /\ pc'[c] = "slot"
    BY <1>1 DEF TypeOK
  <1>3. n \in Tickets \ (won \cup lost) /\ Wins(n)
    BY <1>1 DEF TicketInv, PendingTickets, Pending, WinnersBelowTail
  <1>4. \A d \in Consumers \ {c} : Pending(d) => ticket[d].count # n
    BY <1>1 DEF TicketInv, PendingTickets, Pending
  <1> HIDE DEF n
  <1>5. Cardinality(won') = Cardinality(won) + 1
    BY <1>1, <1>3, TicketSetsFinite, FS_AddElement DEF TicketInv
  <1>6. TicketsCounted'
    BY <1>1, <1>3, <1>5 DEF TicketInv, TicketsCounted, Tickets
  <1>7. PendingTickets'
    BY <1>1, <1>2, <1>4 DEF TicketInv, PendingTickets, Pending, Tickets
  <1>8. OvercommitIsPast'
    BY <1>1, <1>2 DEF TicketInv, OvercommitIsPast, LostBefore
  <1>9. WinnersBelowTail'
    BY <1>1, <1>2, <1>3 DEF TicketInv, WinnersBelowTail, Wins, LostBefore
  <1>10. LastWinner'
    <2>1. CASE won = {}
      BY <1>1, <2>1 DEF LastWinner
    <2>2. CASE won # {}
      <3>1. PICK M \in won : \A m \in won : m <= M
        BY <2>2 DEF TicketInv, LastWinner
      <3>2. M \in Nat /\ won \subseteq Nat
        BY DEF TypeOK
      <3>3. CASE n <= M
        BY <1>1, <3>1, <3>3 DEF LastWinner
      <3>4. CASE M < n
        <4>1. \A m \in won : m <= n
          BY <1>1, <3>1, <3>2, <3>4
        <4> QED
          BY <1>1, <4>1 DEF LastWinner
      <3> QED
        BY <1>1, <3>2, <3>3, <3>4
    <2> QED
      BY <2>1, <2>2
  <1> QED
    BY <1>6, <1>7, <1>8, <1>9, <1>10 DEF TicketInv

LEMMA StepTickets == TypeOK /\ TicketInv /\ [Next]_vars => TicketInv'
  <1> SUFFICES ASSUME TypeOK, TicketInv, [Next]_vars PROVE TicketInv'
    OBVIOUS
  <1> USE DEF counters, history
  <1>1. ASSUME Producer PROVE TicketInv'
    <2>1. /\ UNCHANGED <<headIndex, dequeueOptimisticCount, dequeueOvercommit,
                         won, lost, pc, ticket>>
          /\ tailIndex' = tailIndex \/ tailIndex' = tailIndex + 1
      BY <1>1 DEF Producer, EnqueueStart, CheckRoom, InsertKey, InsertRefused,
                  AdvanceIndex, Requisition, RequisitionFails, RewindIndex,
                  ClearEntry, ResetEmpty, PublishBlock, WriteElement, Commit,
                  consumer
    <2>2. tailIndex' \in Nat /\ tailIndex' >= tailIndex
      BY <2>1 DEF TypeOK
    <2> QED
      BY <2>1, <2>2, QuietSteps
  <1>2. ASSUME NEW c \in Consumers, Consumer(c) PROVE TicketInv'
    <2> DEFINE Quiet == /\ UNCHANGED <<counters, won, lost>>
                        /\ \A d \in Consumers :
                              \/ pc'[d] = pc[d] /\ ticket'[d] = ticket[d]
                              \/ pc'[d] \notin Deciding
    <2>1. ASSUME Quiet PROVE TicketInv'
      BY <2>1, QuietSteps DEF TypeOK
    <2>2. ASSUME NEW to \in ConsumerSteps \ Deciding, pc' = [pc EXCEPT ![c] = to],
                 \A d \in Consumers \ {c} : ticket'[d] = ticket[d]
          PROVE  \A d \in Consumers : \/ pc'[d] = pc[d] /\ ticket'[d] = ticket[d]
                                      \/ pc'[d] \notin Deciding
      BY <2>2 DEF TypeOK
    <2>3. CASE LoadTail(c)
      <3>1. /\ pc' = [pc EXCEPT ![c] = "over"]
            /\ \A d \in Consumers \ {c} : ticket'[d] = ticket[d]
            /\ UNCHANGED <<counters, won, lost>>
        BY <2>3 DEF LoadTail, Goto, TypeOK
      <3> QED
        BY <3>1, <2>1, <2>2 DEF ConsumerSteps, Deciding
    <2>4. CASE CheckAvailable(c)
      <3>1. CASE pc' = [pc EXCEPT ![c] = "idle"]
        <4>1. /\ \A d \in Consumers \ {c} : ticket'[d] = ticket[d]
              /\ UNCHANGED <<counters, won, lost>>
          BY <2>4 DEF CheckAvailable, Keep, Return, TypeOK
        <4> QED
          BY <3>1, <4>1, <2>1, <2>2 DEF ConsumerSteps, Deciding
      <3>2. CASE pc' # [pc EXCEPT ![c] = "idle"]
        <4>1. /\ pc[c] = "check" /\ pc' = [pc EXCEPT ![c] = "ticket"]
              /\ UNCHANGED <<counters, ticket, won, lost>>
          BY <2>4, <3>2 DEF CheckAvailable, Goto, Keep
        <4>2. /\ TicketsCounted' /\ LastWinner'
              /\ PendingTickets' /\ OvercommitIsPast' /\ WinnersBelowTail'
          BY <4>1 DEF TicketInv, TicketsCounted, LastWinner, Tickets, TypeOK,
                      PendingTickets, Pending, OvercommitIsPast, LostBefore,
                      WinnersBelowTail, Wins
        <4> QED
          BY <4>2 DEF TicketInv
      <3> QED
        BY <3>1, <3>2
    <2>5. CASE \/ LoadIndexTail(c) \/ LookUpSlot(c) \/ LoadBlock(c)
               \/ MoveElement(c) \/ UnlinkBlock(c)
      <3>1. /\ \E to \in ConsumerSteps \ Deciding : pc' = [pc EXCEPT ![c] = to]
            /\ UNCHANGED <<counters, ticket, won, lost>>
        BY <2>5 DEF LoadIndexTail, LookUpSlot, LoadBlock, MoveElement,
                    UnlinkBlock, Goto, Keep, ConsumerSteps, Deciding
      <3> QED
        BY <3>1, <2>1, <2>2
    <2>6. CASE SetEmpty(c) \/ FreeBlock(c)
      <3>1. /\ \E to \in ConsumerSteps \ Deciding : pc' = [pc EXCEPT ![c] = to]
            /\ UNCHANGED <<counters, won, lost>>
        BY <2>6 DEF SetEmpty, FreeBlock, Goto, ConsumerSteps, Deciding
      <3>2. \A d \in Consumers \ {c} : ticket'[d] = ticket[d]
        BY <2>6 DEF SetEmpty, FreeBlock, Keep, Return, TypeOK
      <3> QED
        BY <3>1, <3>2, <2>1, <2>2
    <2> QED
      BY <1>2, <2>3, <2>4, <2>5, <2>6, LoadOvercommitKeeps, TakeTicketKeeps,
         RecheckKeeps, GiveUpKeeps, ClaimKeeps DEF Consumer
  <1>3. ASSUME NEW b \in Blocks, Settle(b) \/ OtherTakes(b) \/ OtherReturns(b)
        PROVE  TicketInv'
    <2>1. UNCHANGED <<counters, won, lost, pc, ticket>>
      BY <1>3 DEF Settle, OtherTakes, OtherReturns, consumer
    <2> QED
      BY <2>1, QuietSteps DEF TypeOK
  <1>4. CASE Destroy \/ UNCHANGED vars
    <2>1. UNCHANGED <<counters, won, lost, pc, ticket>>
      BY <1>4 DEF Destroy, vars, consumer
    <2> QED
      BY <2>1, QuietSteps DEF TypeOK
  <1> QED
    BY <1>1, <1>2, <1>3, <1>4 DEF Next

\* The ticket invariant is inductive, given the types.
THEOREM TicketsCorrect == Spec => []TicketInv
  BY InitTypes, StepTypes, InitTickets, StepTickets, PTL DEF Spec

\* With any number of consumers, in any interleaving, with loads that lag behind,
\* no consumer ever claims an element that was not enqueued: the comment of
\* ExplicitProducer::dequeue, on which ImplicitProducer::dequeue relies.
THEOREM ClaimsNeverPassTail == Spec => []HeadNeverPassesTail
  BY TypeCorrect, TicketsCorrect, ClaimsBounded, PTL

-----------------------------------------------------------------------------
(* The sub-queue stays within its limit *)

LEMMA DivMod ==
    ASSUME NEW a \in Nat, NEW n \in Nat, n > 0
    PROVE  \E q \in Nat : a = n * q + (a % n)
  <1> DEFINE q == a \div n
  <1>1. q \in Nat
    OBVIOUS
  <1>2. a % n = a - n * q
    OBVIOUS
  <1>3. a % n \in Nat
    OBVIOUS
  <1> HIDE DEF q
  <1>4. n * q \in Nat
    BY <1>1
  <1>5. a = n * q + (a % n)
    BY <1>2, <1>3, <1>4
  <1> QED
    BY <1>1, <1>5

LEMMA ModUnique ==
    ASSUME NEW n \in Nat, n > 0, NEW q \in Nat, NEW r \in 0 .. n - 1,
           NEW a \in Nat, a = n * q + r
    PROVE  a % n = r
  OBVIOUS

\* The cell of the next index: the next cell, or the first one again.
LEMMA NextMod ==
    ASSUME NEW a \in Nat, NEW n \in Nat, n > 0
    PROVE  (a + 1) % n = IF a % n = n - 1 THEN 0 ELSE (a % n) + 1
  <1>1. PICK q \in Nat : a = n * q + (a % n)
    BY DivMod
  <1>2. a % n \in 0 .. n - 1
    OBVIOUS
  <1> DEFINE r == a % n
  <1>3. a = n * q + r /\ r \in 0 .. n - 1
    BY <1>1, <1>2
  <1> HIDE DEF r
  <1>4. CASE r = n - 1
    <2>1. /\ a + 1 = n * (q + 1) + 0 /\ a + 1 \in Nat
          /\ q + 1 \in Nat /\ 0 \in 0 .. n - 1
      BY <1>3, <1>4
    <2>2. (a + 1) % n = 0
      BY <2>1, ModUnique
    <2> QED
      BY <2>2, <1>4 DEF r
  <1>5. CASE r # n - 1
    <2>1. /\ a + 1 = n * q + (r + 1) /\ a + 1 \in Nat
          /\ r + 1 \in 0 .. n - 1
      BY <1>3, <1>5
    <2>2. (a + 1) % n = r + 1
      BY <2>1, ModUnique
    <2> QED
      BY <2>2, <1>5 DEF r
  <1> QED
    BY <1>4, <1>5

LEMMA GapShrinks ==
    ASSUME NEW t \in Nat, NEW h \in Nat, NEW later \in Nat, later >= h,
           NEW m \in Int, t - h <= m
    PROVE  t - later <= m
  OBVIOUS

LEMMA RoomBounds == TypeOK /\ RoomInv => SubqueueBound
  <1> SUFFICES ASSUME TypeOK, RoomInv
               PROVE  tailIndex - headIndex <= MaxSubqueue
    BY DEF SubqueueBound
  <1>1. /\ tailIndex \in Nat /\ headIndex \in Nat
        /\ BlockSize \in Nat /\ MaxSubqueue \in Nat
    BY SizeAssumption DEF TypeOK
  <1>2. Cell(tailIndex) \in 0 .. BlockSize - 1
    BY <1>1, RingPositions DEF Cells
  <1> QED
    BY <1>1, <1>2 DEF RoomInv

LEMMA InitRoom == Init => RoomInv
  <1> SUFFICES ASSUME Init PROVE RoomInv
    OBVIOUS
  <1>1. BlockSize \in Nat /\ BlockSize > 0 /\ 0 = BlockSize * 0 + 0
    BY SizeAssumption
  <1>2. 0 % BlockSize = 0
    BY <1>1
  <1> QED
    BY <1>2, SizeAssumption DEF Init, RoomInv, Cell

LEMMA StepRoom == TypeOK /\ RoomInv /\ [Next]_vars => RoomInv'
  <1> SUFFICES ASSUME TypeOK, RoomInv, [Next]_vars PROVE RoomInv'
    OBVIOUS
  <1> DEFINE cell == Cell(tailIndex)
  <1> USE DEF counters
  <1>0. /\ BlockSize \in Nat /\ BlockSize > 0 /\ MaxSubqueue \in Nat
        /\ tailIndex \in Nat /\ headIndex \in Nat
    BY SizeAssumption DEF TypeOK
  <1>1. /\ cell \in 0 .. BlockSize - 1 /\ BlockSize \in Nat /\ BlockSize > 0
        /\ tailIndex \in Nat /\ headIndex \in Nat /\ MaxSubqueue \in Nat
    BY <1>0, RingPositions DEF Cells
  \* Only Commit moves the tail, and no other step undoes what was established.
  <1>2. ASSUME tailIndex' = tailIndex, headIndex' \in Nat, headIndex' >= headIndex,
               ppc' = ppc
        PROVE  RoomInv'
    <2>1. Cell(tailIndex)' = cell
      BY <1>2 DEF Cell
    <2> HIDE DEF cell
    <2>2. ASSUME NEW m \in Int, tailIndex - headIndex <= m
          PROVE  tailIndex' - headIndex' <= m
      BY <1>0, <1>2, <2>2, GapShrinks
    <2>3. MaxSubqueue - BlockSize \in Int /\ MaxSubqueue \in Int
          /\ MaxSubqueue - BlockSize + cell \in Int
      BY <1>1
    <2>4. /\ cell = 0 => tailIndex - headIndex <= MaxSubqueue
          /\ cell # 0 \/ ppc \in {"write", "commit"} =>
                tailIndex - headIndex <= MaxSubqueue - BlockSize + cell
          /\ ppc \in {"insert", "advance", "requisition", "rewind", "clear",
                      "reset", "publish"} =>
                tailIndex - headIndex <= MaxSubqueue - BlockSize
          /\ ppc \notin {"idle", "write", "commit", "destroyed"} => cell = 0
      BY DEF RoomInv, cell
    <2> QED
      BY <1>2, <2>1, <2>2, <2>3, <2>4 DEF RoomInv
  <1>3. CASE Commit
    <2>1. ppc = "commit" /\ ppc' = "idle" /\ tailIndex' = tailIndex + 1
      BY <1>3 DEF Commit
    <2>2. headIndex' = headIndex
      BY <1>3 DEF Commit
    <2>3. Cell(tailIndex)' = IF cell = BlockSize - 1 THEN 0 ELSE cell + 1
      BY <1>1, <2>1, NextMod DEF Cell
    <2>4. tailIndex - headIndex <= MaxSubqueue - BlockSize + cell
      BY <2>1 DEF RoomInv
    <2> HIDE DEF cell
    <2> QED
      BY <1>1, <2>1, <2>2, <2>3, <2>4 DEF RoomInv
  <1>4. CASE CheckRoom
    <2>1. PICK head \in Recent(headIndex) :
             ppc' = IF HasRoom(head) THEN "insert" ELSE "idle"
      BY <1>4 DEF CheckRoom
    <2>2. head \in Nat /\ head <= headIndex
      BY <1>1, LoadsAreNatural
    <2>3. ppc = "room" /\ UNCHANGED <<tailIndex, headIndex>>
      BY <1>4 DEF CheckRoom
    <2>4. cell = 0 /\ Cell(tailIndex)' = 0
      BY <2>3 DEF RoomInv, Cell
    <2>5. ppc' = "insert" => tailIndex - headIndex <= MaxSubqueue - BlockSize
      BY <1>1, <2>1, <2>2 DEF HasRoom
    <2> QED
      BY <1>1, <2>1, <2>3, <2>4, <2>5 DEF RoomInv
  <1>5. CASE EnqueueStart
    <2>1. /\ ppc = "idle" /\ ppc' = IF cell = 0 THEN "room" ELSE "write"
          /\ UNCHANGED <<tailIndex, headIndex>>
      BY <1>5 DEF EnqueueStart
    <2>2. Cell(tailIndex)' = cell
      BY <2>1 DEF Cell
    <2> QED
      BY <1>1, <2>1, <2>2 DEF RoomInv
  <1>6. CASE \/ InsertKey \/ InsertRefused \/ AdvanceIndex \/ Requisition
             \/ RequisitionFails \/ RewindIndex \/ ClearEntry \/ ResetEmpty
             \/ PublishBlock
    <2>1. /\ ppc \in {"insert", "advance", "requisition", "rewind", "clear",
                      "reset", "publish"}
          /\ ppc' \in {"idle", "advance", "requisition", "rewind", "clear",
                       "reset", "publish", "write"}
          /\ UNCHANGED <<tailIndex, headIndex>>
      BY <1>6 DEF InsertKey, InsertRefused, AdvanceIndex, Requisition,
                  RequisitionFails, RewindIndex, ClearEntry, ResetEmpty,
                  PublishBlock
    <2>2. Cell(tailIndex)' = cell /\ cell = 0
      BY <2>1 DEF Cell, RoomInv
    <2>3. tailIndex - headIndex <= MaxSubqueue - BlockSize
      BY <2>1 DEF RoomInv
    <2> HIDE DEF cell
    <2> QED
      BY <1>1, <2>1, <2>2, <2>3 DEF RoomInv
  <1>7. CASE WriteElement
    <2>1. /\ ppc = "write" /\ ppc' = "commit"
          /\ UNCHANGED <<tailIndex, headIndex>>
      BY <1>7 DEF WriteElement
    <2>2. Cell(tailIndex)' = cell
      BY <2>1 DEF Cell
    <2> QED
      BY <2>1, <2>2 DEF RoomInv
  <1>8. ASSUME NEW c \in Consumers, Consumer(c) PROVE RoomInv'
    <2>1. /\ tailIndex' = tailIndex /\ ppc' = ppc
          /\ headIndex' = headIndex \/ headIndex' = headIndex + 1
      BY <1>8 DEF Consumer, LoadTail, LoadOvercommit, CheckAvailable,
                  TakeTicket, Recheck, GiveUp, Claim, LoadIndexTail, LookUpSlot,
                  LoadBlock, MoveElement, SetEmpty, UnlinkBlock, FreeBlock,
                  producer
    <2> QED
      BY <1>1, <1>2, <2>1
  <1>9. ASSUME NEW b \in Blocks, Settle(b) \/ OtherTakes(b) \/ OtherReturns(b)
        PROVE  RoomInv'
    <2>1. UNCHANGED <<tailIndex, headIndex, ppc>>
      BY <1>9 DEF Settle, OtherTakes, OtherReturns, producer
    <2> QED
      BY <1>1, <1>2, <2>1
  <1>10. CASE Destroy
    <2>1. /\ ppc = "idle" /\ ppc' = "destroyed"
          /\ UNCHANGED <<tailIndex, headIndex>>
      BY <1>10 DEF Destroy, AllReturned
    <2>2. Cell(tailIndex)' = cell
      BY <2>1 DEF Cell
    <2> QED
      BY <2>1, <2>2 DEF RoomInv
  <1>11. CASE UNCHANGED vars
    <2>1. UNCHANGED <<tailIndex, headIndex, ppc>>
      BY <1>11 DEF vars, producer
    <2> QED
      BY <1>1, <1>2, <2>1
  <1> QED
    BY <1>3, <1>4, <1>5, <1>6, <1>7, <1>8, <1>9, <1>10, <1>11
       DEF Next, Producer

\* The room an enqueue has checked is still there when it commits.
THEOREM RoomCorrect == Spec => []RoomInv
  BY InitTypes, StepTypes, InitRoom, StepRoom, PTL DEF Spec

\* However many consumers there are and however late the producer's view of
\* headIndex is, it never has more than MAX_SUBQUEUE_SIZE elements waiting.
THEOREM LimitKept == Spec => []SubqueueBound
  BY TypeCorrect, RoomCorrect, RoomBounds, PTL

-----------------------------------------------------------------------------
(* Blocks, cells and slots of indices *)

LEMMA Quotient ==
    ASSUME NEW n \in Nat, n > 0, NEW q \in Int, NEW r \in 0 .. n - 1,
           NEW a \in Int, a = n * q + r
    PROVE  a % n = r /\ a \div n = q
  OBVIOUS

LEMMA Division ==
    ASSUME NEW n \in Nat, n > 0, NEW a \in Nat
    PROVE  \E q \in Nat, r \in 0 .. n - 1 :
              a = n * q + r /\ a % n = r /\ a \div n = q
  <1>1. PICK q \in Nat : a = n * q + (a % n)
    BY DivMod
  <1>2. a % n \in 0 .. n - 1
    BY ModInRange
  <1> DEFINE r == a % n
  <1> HIDE DEF r
  <1>3. a = n * q + r /\ r \in 0 .. n - 1
    BY <1>1, <1>2 DEF r
  <1>4. a % n = r /\ a \div n = q
    BY <1>3, Quotient
  <1> QED
    BY <1>3, <1>4

\* Every index is a block's base and a cell of it, in the ring slot of the block.
LEMMA Parts ==
    ASSUME NEW i \in Nat
    PROVE  \E q \in Nat, r \in Cells :
              /\ i = BlockSize * q + r /\ Cell(i) = r /\ Base(i) = BlockSize * q
              /\ BlockSize * q \in Nat
              /\ i \div BlockSize = q /\ SlotAt(i) = q % IndexCap
  <1>1. BlockSize \in Nat /\ BlockSize > 0
    BY SizeAssumption
  <1>2. PICK q \in Nat, r \in 0 .. BlockSize - 1 :
           i = BlockSize * q + r /\ i % BlockSize = r /\ i \div BlockSize = q
    BY <1>1, Division
  <1> DEFINE m == BlockSize * q
  <1>3. m \in Nat
    BY <1>1
  <1> HIDE DEF m
  <1>4. i = m + r
    BY <1>2 DEF m
  <1>5. i - r = m
    BY <1>3, <1>4, <1>1
  <1> QED
    BY <1>2, <1>3, <1>4, <1>5 DEF Cells, Cell, Base, SlotAt, m

LEMMA IndexParts ==
    ASSUME NEW i \in Nat
    PROVE  /\ Base(i) \in Nat /\ Cell(i) \in Cells /\ i = Base(i) + Cell(i)
           /\ Cell(Base(i)) = 0 /\ SlotAt(Base(i)) = SlotAt(i)
           /\ SlotAt(i) \in Slots
  <1>1. PICK q \in Nat, r \in Cells :
              /\ i = BlockSize * q + r /\ Cell(i) = r /\ Base(i) = BlockSize * q
              /\ BlockSize * q \in Nat
              /\ i \div BlockSize = q /\ SlotAt(i) = q % IndexCap
    BY Parts
  <1> DEFINE m == BlockSize * q
  <1>2. m = BlockSize * q + 0 /\ m \in Int /\ 0 \in 0 .. BlockSize - 1
        /\ BlockSize \in Nat /\ BlockSize > 0 /\ q \in Int
    BY <1>1, SizeAssumption
  <1>3. m % BlockSize = 0 /\ m \div BlockSize = q
    BY ONLY <1>2, Quotient
  <1>4. q % IndexCap \in Slots
    BY SizeAssumption, ModInRange DEF Slots
  <1> QED
    BY <1>1, <1>3, <1>4 DEF Cell, SlotAt

\* The indices of a block are those with its base.
LEMMA SameBlock ==
    ASSUME NEW k \in Nat, Cell(k) = 0, NEW i \in Nat
    PROVE  i \in InBlock(k) <=> Base(i) = k
  <1>1. PICK p \in Nat, r \in Cells :
              /\ k = BlockSize * p + r /\ Cell(k) = r /\ Base(k) = BlockSize * p
              /\ BlockSize * p \in Nat
              /\ k \div BlockSize = p /\ SlotAt(k) = p % IndexCap
    BY Parts
  <1>2. k = BlockSize * p
    BY <1>1
  <1>3. ASSUME i \in InBlock(k) PROVE Base(i) = k
    <2> DEFINE s == i - k
    <2>1. s \in 0 .. BlockSize - 1 /\ i = k + s
      BY <1>3, SizeAssumption DEF InBlock
    <2> HIDE DEF s
    <2>2. i = BlockSize * p + s /\ i \in Int /\ p \in Int /\ BlockSize \in Nat /\ BlockSize > 0
      BY <1>2, <2>1, SizeAssumption
    <2>3. i % BlockSize = s
      BY ONLY <2>1, <2>2, Quotient
    <2> QED
      BY <2>1, <2>3, SizeAssumption DEF Base
  <1>4. ASSUME Base(i) = k PROVE i \in InBlock(k)
    <2>1. i = k + Cell(i) /\ Cell(i) \in 0 .. BlockSize - 1
      BY <1>4, IndexParts DEF Cells
    <2> QED
      BY <2>1, SizeAssumption DEF InBlock
  <1> QED
    BY <1>3, <1>4

\* The next index is in the same block, or the first of the next one.
LEMMA NextIndex ==
    ASSUME NEW i \in Nat
    PROVE  /\ Cell(i + 1) # 0 => Base(i + 1) = Base(i) /\ SlotAt(i + 1) = SlotAt(i)
           /\ Cell(i + 1) = 0 => Base(i) + BlockSize = i + 1
  <1>1. BlockSize \in Nat /\ BlockSize > 0
    BY SizeAssumption
  <1>2. Base(i) \in Nat /\ Cell(i) \in 0 .. BlockSize - 1 /\ i = Base(i) + Cell(i)
    BY IndexParts DEF Cells
  <1>3. Cell(i + 1) = IF Cell(i) = BlockSize - 1 THEN 0 ELSE Cell(i) + 1
    BY <1>1, NextMod DEF Cell
  <1>4. i + 1 \in Nat /\ i + 1 = Base(i + 1) + Cell(i + 1) /\ Base(i + 1) \in Nat
    BY IndexParts
  <1>5. ASSUME Cell(i + 1) # 0 PROVE Base(i + 1) = Base(i)
    <2>1. Cell(i + 1) = Cell(i) + 1
      BY <1>3, <1>5
    <2> QED
      BY <1>2, <1>4, <2>1
  <1>6. ASSUME Cell(i + 1) = 0 PROVE Base(i) + BlockSize = i + 1
    <2>1. Cell(i) = BlockSize - 1
      BY <1>1, <1>2, <1>3, <1>6
    <2> QED
      BY <1>1, <1>2, <2>1
  <1>7. ASSUME Cell(i + 1) # 0 PROVE SlotAt(i + 1) = SlotAt(i)
    <2>1. SlotAt(Base(i + 1)) = SlotAt(i + 1) /\ SlotAt(Base(i)) = SlotAt(i)
      BY <1>4, IndexParts
    <2> QED
      BY <2>1, <1>5, <1>7
  <1> QED
    BY <1>5, <1>6, <1>7

\* Adding to a remainder.
LEMMA RemainderPlus ==
    ASSUME NEW n \in Nat, n > 0, NEW a \in Nat, NEW b \in Nat
    PROVE  ((a % n) + (b - a)) % n = b % n
  <1>1. PICK q \in Nat, r \in 0 .. n - 1 : a = n * q + r /\ a % n = r /\ a \div n = q
    BY Division
  <1>2. PICK p \in Nat, s \in 0 .. n - 1 : b = n * p + s /\ b % n = s /\ b \div n = p
    BY Division
  <1> DEFINE u == n * q
             v == n * p
             w == n * (p - q)
  <1>3. u \in Int /\ v \in Int /\ w \in Int /\ w = v - u
    OBVIOUS
  <1>4. r + (b - a) = w + s
    <2> HIDE DEF u, v, w
    <2>1. a = u + r /\ b = v + s
      BY <1>1, <1>2 DEF u, v
    <2> QED
      BY <1>3, <2>1
  <1>5. p - q \in Int /\ r + (b - a) \in Int /\ r + (b - a) = n * (p - q) + s
    BY <1>4
  <1>6. (r + (b - a)) % n = s
    BY ONLY <1>5, Quotient, n \in Nat, n > 0, s \in 0 .. n - 1
  <1> QED
    BY <1>1, <1>2, <1>6

\* get_block_index_index_for_index finds the right slot from any valid one.
LEMMA SlotFound ==
    ASSUME NEW i \in Nat, NEW k \in Nat, Cell(k) = 0
    PROVE  SlotOf(i, SlotAt(k), k) = SlotAt(i)
  <1>1. PICK p \in Nat, r \in Cells :
              /\ k = BlockSize * p + r /\ Cell(k) = r /\ Base(k) = BlockSize * p
              /\ BlockSize * p \in Nat
              /\ k \div BlockSize = p /\ SlotAt(k) = p % IndexCap
    BY Parts
  <1>2. PICK q \in Nat, s \in Cells :
              /\ i = BlockSize * q + s /\ Cell(i) = s /\ Base(i) = BlockSize * q
              /\ BlockSize * q \in Nat
              /\ i \div BlockSize = q /\ SlotAt(i) = q % IndexCap
    BY Parts
  <1> DEFINE d == BlockSize * (q - p)
  <1>3. d \in Int /\ d = BlockSize * (q - p) + 0 /\ q - p \in Int
        /\ BlockSize \in Nat /\ BlockSize > 0 /\ 0 \in 0 .. BlockSize - 1
    BY SizeAssumption
  <1>4. Base(i) - k = d
    <2>1. k = BlockSize * p
      BY <1>1
    <2>2. BlockSize * q - BlockSize * p = BlockSize * (q - p)
      BY <1>3
    <2> QED
      BY <1>2, <2>1, <2>2
  <1>5. d \div BlockSize = q - p
    BY ONLY <1>3, Quotient
  <1>6. p \in Nat /\ q \in Nat /\ IndexCap \in Nat /\ IndexCap > 0
    BY SizeAssumption
  <1>7. ((p % IndexCap) + (q - p)) % IndexCap = q % IndexCap
    BY ONLY <1>6, RemainderPlus
  <1> QED
    BY <1>1, <1>2, <1>5, <1>7, <1>4 DEF SlotOf

\* The slots around that of the next block.
LEMMA SlotsAround ==
    ASSUME TypeOK, Cell(tailIndex) = 0
    PROVE  /\ (LastSlot + 1) % IndexCap = SlotAt(tailIndex)
           /\ (SlotAt(tailIndex) - 1) % IndexCap = LastSlot
  <1>1. tailIndex \in Nat /\ IndexCap \in Nat /\ IndexCap > 1 /\ BlockSize \in Nat
        /\ BlockSize > 1
    BY SizeAssumption DEF TypeOK
  <1>2. PICK p \in Nat, r \in Cells :
              /\ tailIndex = BlockSize * p + r /\ Cell(tailIndex) = r
              /\ Base(tailIndex) = BlockSize * p
              /\ BlockSize * p \in Nat
              /\ tailIndex \div BlockSize = p /\ SlotAt(tailIndex) = p % IndexCap
    BY <1>1, Parts
  <1>3. CASE tailIndex = 0
    <2>1. 0 = IndexCap * 0 + 0 /\ 0 \in 0 .. IndexCap - 1 /\ 0 = BlockSize * 0 + 0
          /\ 0 \in 0 .. BlockSize - 1
      BY <1>1
    <2>2. 0 \div BlockSize = 0 /\ 0 % IndexCap = 0
      BY <1>1, <2>1, Quotient
    <2>3. SlotAt(tailIndex) = 0
      BY <1>3, <2>2 DEF SlotAt
    <2>4. IndexCap = IndexCap * 1 + 0 /\ -1 = IndexCap * (-1) + (IndexCap - 1)
          /\ IndexCap - 1 \in 0 .. IndexCap - 1
      BY <1>1
    <2>5. IndexCap % IndexCap = 0 /\ (-1) % IndexCap = IndexCap - 1
      BY <1>1, <2>1, <2>4, Quotient
    <2>6. (IndexCap - 1) + 1 = IndexCap /\ 0 - 1 = -1
      BY <1>1
    <2> QED
      BY <1>3, <2>3, <2>5, <2>6 DEF LastSlot
  <1>4. CASE tailIndex # 0
    <2>1. tailIndex - 1 \in Nat /\ (tailIndex - 1) + 1 = tailIndex
      BY <1>1, <1>4
    <2>2. PICK q \in Nat, s \in Cells :
              /\ tailIndex - 1 = BlockSize * q + s /\ Cell(tailIndex - 1) = s
              /\ Base(tailIndex - 1) = BlockSize * q
              /\ BlockSize * q \in Nat
              /\ (tailIndex - 1) \div BlockSize = q /\ SlotAt(tailIndex - 1) = q % IndexCap
      BY <2>1, Parts
    <2>3. Base(tailIndex - 1) + BlockSize = tailIndex
      BY <2>1, NextIndex
    <2>4. tailIndex = BlockSize * (q + 1) + 0 /\ q + 1 \in Nat /\ 0 \in 0 .. BlockSize - 1
      <3> DEFINE m == BlockSize * q
      <3>1. BlockSize * (q + 1) = m + BlockSize /\ m \in Nat
        BY <1>1
      <3> HIDE DEF m
      <3> QED
        BY <1>1, <2>2, <2>3, <3>1 DEF m
    <2>5. tailIndex \div BlockSize = q + 1
      BY <1>1, <2>4, Quotient
    <2>6. p = q + 1
      BY <1>2, <2>5
    <2>7. p \in Nat /\ q \in Nat /\ IndexCap \in Nat /\ IndexCap > 0
      BY <1>1
    <2>8. ((q % IndexCap) + (p - q)) % IndexCap = p % IndexCap
          /\ ((p % IndexCap) + (q - p)) % IndexCap = q % IndexCap
      BY ONLY <2>7, RemainderPlus
    <2>9. q % IndexCap \in Int /\ p % IndexCap \in Int /\ q \in Int
      BY <1>1, ModInRange
    <2>10. p - q = 1 /\ q - p = -1
      BY <2>6, <2>9
    <2>11. \A x \in Int : x + (-1) = x - 1
      OBVIOUS
    <2> QED
      BY <1>2, <1>4, <2>2, <2>8, <2>9, <2>10, <2>11 DEF LastSlot
  <1> QED
    BY <1>3, <1>4

-----------------------------------------------------------------------------
(* What a step may change *)

Good == TypeOK /\ RoomInv /\ HeadNeverPassesTail /\ LayoutInv

LEMMA Basics ==
    ASSUME TypeOK
    PROVE  /\ tailIndex \in Nat /\ headIndex \in Nat
           /\ BlockSize \in Nat /\ BlockSize > 1
           /\ SlotAt(tailIndex) \in Slots /\ LastSlot \in Slots
           /\ Base(tailIndex) \in Nat /\ Cell(tailIndex) \in Cells
           /\ tailIndex = Base(tailIndex) + Cell(tailIndex)
           /\ Reserved \in Nat /\ tailIndex <= Reserved
           /\ Reserved <= tailIndex + BlockSize
           /\ key \in [Slots -> Nat]
           /\ \A c \in Consumers : found[c].index \in Nat /\ found[c].entry \in Slots
  <1>1. /\ tailIndex \in Nat /\ headIndex \in Nat
        /\ BlockSize \in Nat /\ BlockSize > 1 /\ IndexCap \in Nat /\ IndexCap > 1
    BY SizeAssumption DEF TypeOK
  <1>2. /\ Base(tailIndex) \in Nat /\ Cell(tailIndex) \in 0 .. BlockSize - 1
        /\ tailIndex = Base(tailIndex) + Cell(tailIndex) /\ SlotAt(tailIndex) \in Slots
    BY <1>1, IndexParts DEF Cells
  <1>3. LastSlot \in Slots
    <2>1. CASE tailIndex = 0
      BY <1>1, <2>1 DEF LastSlot, Slots
    <2>2. CASE tailIndex # 0
      <3>1. tailIndex - 1 \in Nat
        BY <1>1, <2>2
      <3> QED
        BY <2>2, <3>1, IndexParts DEF LastSlot
    <2> QED
      BY <2>1, <2>2
  <1>4. /\ Reserved \in Nat /\ tailIndex <= Reserved
        /\ Reserved <= tailIndex + BlockSize
    BY <1>1, <1>2 DEF Reserved
  <1>5. ASSUME NEW c \in Consumers
        PROVE  found[c].index \in Nat /\ found[c].entry \in Slots
    BY DEF TypeOK, FoundType
  <1>6. key \in [Slots -> Nat]
    BY DEF TypeOK
  <1> QED
    BY <1>1, <1>2, <1>3, <1>4, <1>5, <1>6 DEF Cells

\* The producer and the rest of the pool do nothing to the consumers.
NoConsumer == Producer \/ (\E b \in Blocks : Settle(b) \/ OtherTakes(b) \/ OtherReturns(b))
              \/ Destroy \/ UNCHANGED vars

LEMMA ConsumersStay ==
    ASSUME NoConsumer
    PROVE  /\ UNCHANGED <<headIndex, pc, found, element>>
           /\ \A i : IsEmptied(i)' <=> IsEmptied(i)
           /\ \A c \in Consumers : InHand(c)' <=> InHand(c)
  <1> USE DEF counters, consumer, vars
  <1>1. UNCHANGED <<headIndex, pc, found, element>>
    <2>1. CASE Producer
      BY <2>1 DEF Producer, EnqueueStart, CheckRoom, InsertKey, InsertRefused, AdvanceIndex,
         Requisition, RequisitionFails, RewindIndex, ClearEntry, ResetEmpty, PublishBlock,
         WriteElement, Commit
    <2>2. ASSUME NEW b \in Blocks, Settle(b) \/ OtherTakes(b) \/ OtherReturns(b)
          PROVE  UNCHANGED <<headIndex, pc, found, element>>
      BY <2>2 DEF Settle, OtherTakes, OtherReturns
    <2>3. CASE Destroy \/ UNCHANGED vars
      BY <2>3 DEF Destroy
    <2> QED
      BY <2>1, <2>2, <2>3 DEF NoConsumer
  <1> QED
    BY <1>1 DEF IsEmptied, InHand

\* A consumer does nothing to the producer, and changes only its own locals.
LEMMA ProducerStays ==
    ASSUME TypeOK, element \in [Consumers -> Nat], NEW c \in Consumers, Consumer(c)
    PROVE  /\ UNCHANGED <<tailIndex, indexTail, key, ppc, newBlock, tailBlock, pool, other>>
           /\ \A d \in Consumers \ {c} :
                 pc'[d] = pc[d] /\ found'[d] = found[d] /\ element'[d] = element[d]
           /\ Reserved' = Reserved /\ LastSlot' = LastSlot
  <1> USE DEF blockIndex, contents, places, producer
  <1>0. /\ pc \in [Consumers -> ConsumerSteps] /\ found \in [Consumers -> FoundType]
        /\ element \in [Consumers -> Nat]
    BY DEF TypeOK
  <1>1. /\ UNCHANGED <<tailIndex, indexTail, key, ppc, newBlock, tailBlock, pool, other>>
        /\ \A d \in Consumers \ {c} :
              pc'[d] = pc[d] /\ found'[d] = found[d] /\ element'[d] = element[d]
    <2>1. CASE LoadTail(c) \/ LoadOvercommit(c) \/ TakeTicket(c) \/ Recheck(c) \/ CheckAvailable(c)
      BY <1>0, <2>1 DEF LoadTail, LoadOvercommit, TakeTicket, Recheck, CheckAvailable, Keep, Return,
         Goto, counters
    <2>2. CASE GiveUp(c) \/ Claim(c) \/ LoadIndexTail(c) \/ LookUpSlot(c) \/ LoadBlock(c)
      BY <1>0, <2>2 DEF GiveUp, Claim, LoadIndexTail, LookUpSlot, LoadBlock, Return, Goto, counters
    <2>3. CASE MoveElement(c) \/ SetEmpty(c) \/ UnlinkBlock(c) \/ FreeBlock(c)
      BY <1>0, <2>3 DEF MoveElement, SetEmpty, UnlinkBlock, FreeBlock, Keep, Return, Goto, counters
    <2> QED
      BY <2>1, <2>2, <2>3 DEF Consumer
  <1> QED
    BY <1>1 DEF Reserved, LastSlot, Base, Cell, SlotAt

\* What each step of a dequeue after the claim does.
Early == {"idle", "over", "check", "ticket", "recheck", "claim", "giveup"}

LEMMA EarlySteps ==
    ASSUME TypeOK, element \in [Consumers -> Nat], NEW c \in Consumers,
           LoadTail(c) \/ LoadOvercommit(c) \/ CheckAvailable(c) \/ TakeTicket(c)
              \/ Recheck(c) \/ GiveUp(c)
    PROVE  /\ UNCHANGED <<headIndex, value, elements, elementsCompletelyDequeued, freeing>>
           /\ pc[c] \in Early /\ pc'[c] \in Early
           /\ element'[c] \in {element[c], NoMessage}
  <1> USE DEF blockIndex, contents, places, counters, Goto, Early, TypeOK
  <1>1. CASE LoadTail(c) \/ LoadOvercommit(c) \/ TakeTicket(c)
    BY <1>1 DEF LoadTail, LoadOvercommit, TakeTicket
  <1>2. CASE Recheck(c)
    BY <1>2 DEF Recheck, Keep
  <1>3. CASE CheckAvailable(c)
    <2>1. CASE Keep
      BY <1>3, <2>1 DEF CheckAvailable, Keep
    <2>2. CASE Return(c)
      <3>1. element' = [element EXCEPT ![c] = NoMessage]
        BY <2>2 DEF Return
      <3>2. element'[c] \in {element[c], NoMessage}
        BY <3>1
      <3> QED
        BY <1>3, <3>2 DEF CheckAvailable
    <2> QED
      BY <1>3, <2>1, <2>2 DEF CheckAvailable
  <1>4. CASE GiveUp(c)
    <2>1. element' = [element EXCEPT ![c] = NoMessage]
      BY <1>4 DEF GiveUp, Return
    <2>2. element'[c] \in {element[c], NoMessage}
      BY <2>1
    <2> QED
      BY <1>4, <2>2 DEF GiveUp
  <1> QED
    BY <1>1, <1>2, <1>3, <1>4

\* The claims that are not yet emptied, and those not yet moved out of their cell.
Unmoved(c) == pc[c] \in {"slot", "key", "value", "move"}

LEMMA InHandFacts ==
    ASSUME Good, NEW c \in Consumers, InHand(c)
    PROVE  /\ found[c].index \in Nat /\ found[c].index < headIndex
           /\ found[c].index < tailIndex
           /\ ~IsEmptied(found[c].index)
           /\ \A d \in Consumers \ {c} : InHand(d) => found[d].index # found[c].index
           /\ Unmoved(c) => Stored(found[c].index)
  <1>1. /\ found[c].index \in Nat /\ headIndex \in Nat /\ tailIndex \in Nat
        /\ headIndex <= tailIndex
    BY Basics DEF Good, HeadNeverPassesTail
  <1>2. /\ found[c].index < headIndex
        /\ \A d \in Consumers \ {c} : InHand(d) => found[d].index # found[c].index
    BY DEF Good, LayoutInv, ClaimRight
  <1>3. found[c].index < tailIndex
    BY <1>1, <1>2
  <1> QED
    BY <1>1, <1>2, <1>3 DEF IsEmptied, Stored, Unmoved

LEMMA ClaimDoes ==
    ASSUME Good, NEW c \in Consumers, Claim(c)
    PROVE  /\ pc[c] = "claim" /\ pc'[c] = "slot" /\ found'[c].index = headIndex
           /\ headIndex' = headIndex + 1
           /\ UNCHANGED <<value, elements, elementsCompletelyDequeued, freeing, element>>
  BY DEF Good, TypeOK, FoundType, Claim, Goto, blockIndex, contents, places

\* The steps between the claim and set_empty.
LEMMA HandSteps ==
    ASSUME Good, NEW c \in Consumers,
           LoadIndexTail(c) \/ LookUpSlot(c) \/ LoadBlock(c) \/ MoveElement(c)
    PROVE  /\ InHand(c) /\ InHand(c)' /\ Unmoved(c) /\ found'[c].index = found[c].index
           /\ MoveElement(c) => pc[c] = "move" /\ pc'[c] = "empty"
           /\ ~MoveElement(c) =>
                 Unmoved(c)' /\ UNCHANGED <<elements, element>>
           /\ UNCHANGED <<headIndex, value, elementsCompletelyDequeued, freeing>>
  <1>0. pc \in [Consumers -> ConsumerSteps] /\ found \in [Consumers -> FoundType]
    BY DEF Good, TypeOK
  <1> USE <1>0 DEF counters, Goto, blockIndex, contents, places, InHand, Unmoved, FoundType
  <1>1. CASE LoadIndexTail(c)
    BY <1>1 DEF LoadIndexTail, MoveElement
  <1>2. CASE LookUpSlot(c)
    BY <1>2 DEF LookUpSlot, MoveElement
  <1>3. CASE LoadBlock(c)
    BY <1>3 DEF LoadBlock, MoveElement
  <1>4. CASE MoveElement(c)
    BY <1>4 DEF MoveElement
  <1> QED
    BY <1>1, <1>2, <1>3, <1>4

\* The steps after set_empty.
LEMMA LastSteps ==
    ASSUME Good, NEW c \in Consumers, UnlinkBlock(c) \/ FreeBlock(c)
    PROVE  /\ ~InHand(c) /\ ~InHand(c)' /\ ~Unmoved(c) /\ ~Unmoved(c)'
           /\ UNCHANGED <<headIndex, elements, elementsCompletelyDequeued>>
  <1>0. pc \in [Consumers -> ConsumerSteps]
    BY DEF Good, TypeOK
  <1> QED
    BY <1>0 DEF counters, Goto, contents, InHand, Unmoved, UnlinkBlock, FreeBlock

LEMMA SetEmptyDoes ==
    ASSUME Good, NEW c \in Consumers, SetEmpty(c)
    PROVE  /\ InHand(c) /\ ~InHand(c)' /\ ~Unmoved(c) /\ ~Unmoved(c)'
           /\ pc[c] = "empty" /\ UNCHANGED <<headIndex, value, elements, freeing>>
  <1>0. pc \in [Consumers -> ConsumerSteps]
    BY DEF Good, TypeOK
  <1> QED
    BY <1>0 DEF counters, Goto, blockIndex, places, InHand, Unmoved, SetEmpty

LEMMA EmptiedKept ==
    ASSUME Good, NEW c \in Consumers, Consumer(c), ~SetEmpty(c), NEW i \in Nat
    PROVE  IsEmptied(i)' <=> IsEmptied(i)
  <1>1. /\ headIndex \in Nat /\ element \in [Consumers -> Nat] /\ TypeOK
    BY Basics DEF Good, LayoutInv
  <1>2. \A d \in Consumers \ {c} :
           (InHand(d)' <=> InHand(d)) /\ found'[d].index = found[d].index
    BY <1>1, ProducerStays DEF InHand
  <1>3. CASE LoadTail(c) \/ LoadOvercommit(c) \/ CheckAvailable(c) \/ TakeTicket(c)
              \/ Recheck(c) \/ GiveUp(c)
    <2>1. headIndex' = headIndex /\ ~InHand(c) /\ ~InHand(c)'
      BY <1>1, <1>3, EarlySteps DEF Early, InHand
    <2> QED
      BY <1>2, <2>1 DEF IsEmptied
  <1>4. CASE Claim(c)
    <2>1. /\ headIndex' = headIndex + 1 /\ ~InHand(c) /\ InHand(c)'
          /\ found'[c].index = headIndex
      BY <1>4, ClaimDoes DEF InHand
    <2>2. \A d \in Consumers : InHand(d) => found[d].index < headIndex
      BY InHandFacts
    <2>3. (i < headIndex + 1 /\ i # headIndex) <=> i < headIndex
      BY <1>1
    <2> QED
      BY <1>1, <1>2, <2>1, <2>2, <2>3 DEF IsEmptied
  <1>5. CASE LoadIndexTail(c) \/ LookUpSlot(c) \/ LoadBlock(c) \/ MoveElement(c)
    BY <1>2, <1>5, HandSteps DEF IsEmptied
  <1>6. CASE UnlinkBlock(c) \/ FreeBlock(c)
    BY <1>2, <1>6, LastSteps DEF IsEmptied
  <1> QED
    BY <1>3, <1>4, <1>5, <1>6 DEF Consumer

LEMMA EmptiedBySet ==
    ASSUME Good, NEW c \in Consumers, SetEmpty(c), NEW i \in Nat
    PROVE  IsEmptied(i)' <=> IsEmptied(i) \/ i = found[c].index
  <1>1. element \in [Consumers -> Nat] /\ TypeOK /\ Consumer(c)
    BY DEF Good, LayoutInv, Consumer
  <1>2. \A d \in Consumers \ {c} :
           (InHand(d)' <=> InHand(d)) /\ found'[d].index = found[d].index
    BY <1>1, ProducerStays DEF InHand
  <1>3. InHand(c) /\ ~InHand(c)' /\ headIndex' = headIndex
    BY SetEmptyDoes
  <1>4. /\ found[c].index < headIndex
        /\ \A d \in Consumers \ {c} : InHand(d) => found[d].index # found[c].index
    BY <1>3, InHandFacts
  <1> QED
    BY <1>2, <1>3, <1>4 DEF IsEmptied

LEMMA StoredKept ==
    ASSUME Good, NEW c \in Consumers, Consumer(c), ~MoveElement(c), NEW i \in Nat
    PROVE  Stored(i)' <=> Stored(i)
  <1>1. /\ headIndex \in Nat /\ tailIndex \in Nat /\ element \in [Consumers -> Nat] /\ TypeOK
        /\ headIndex <= tailIndex
    BY Basics DEF Good, LayoutInv, HeadNeverPassesTail
  <1>2. /\ \A d \in Consumers \ {c} :
              (Unmoved(d)' <=> Unmoved(d)) /\ found'[d].index = found[d].index
        /\ tailIndex' = tailIndex /\ ppc' = ppc
    BY <1>1, ProducerStays DEF Unmoved
  <1> DEFINE Here == \E d \in Consumers : Unmoved(d) /\ found[d].index = i
  <1>a. Stored(i) <=> (i < tailIndex \/ (i = tailIndex /\ ppc = "commit"))
                          /\ (i >= headIndex \/ Here)
    BY DEF Stored, Unmoved
  <1>b. Stored(i)' <=> (i < tailIndex \/ (i = tailIndex /\ ppc = "commit"))
                          /\ (i >= headIndex' \/ Here')
    BY <1>2 DEF Stored, Unmoved
  <1>3. CASE LoadTail(c) \/ LoadOvercommit(c) \/ CheckAvailable(c) \/ TakeTicket(c)
              \/ Recheck(c) \/ GiveUp(c)
    <2>1. headIndex' = headIndex /\ ~Unmoved(c) /\ ~Unmoved(c)'
      BY <1>1, <1>3, EarlySteps DEF Early, Unmoved
    <2>2. Here' <=> Here
      BY <1>2, <2>1
    <2> QED
      BY <1>a, <1>b, <2>1, <2>2
  <1>4. CASE Claim(c)
    <2>1. /\ headIndex' = headIndex + 1 /\ ~Unmoved(c) /\ Unmoved(c)'
          /\ found'[c].index = headIndex
      BY <1>4, ClaimDoes DEF Unmoved
    <2>2. Here' <=> Here \/ i = headIndex
      BY <1>2, <2>1
    <2>3. i >= headIndex <=> i >= headIndex + 1 \/ i = headIndex
      BY <1>1
    <2> QED
      BY <1>a, <1>b, <2>1, <2>2, <2>3
  <1>5. CASE LoadIndexTail(c) \/ LookUpSlot(c) \/ LoadBlock(c)
    <2>1. headIndex' = headIndex /\ Unmoved(c) /\ Unmoved(c)'
          /\ found'[c].index = found[c].index
      BY <1>5, HandSteps
    <2>2. Here' <=> Here
      BY <1>2, <2>1
    <2> QED
      BY <1>a, <1>b, <2>1, <2>2
  <1>6. CASE SetEmpty(c) \/ UnlinkBlock(c) \/ FreeBlock(c)
    <2>1. headIndex' = headIndex /\ ~Unmoved(c) /\ ~Unmoved(c)'
      BY <1>6, LastSteps, SetEmptyDoes
    <2>2. Here' <=> Here
      BY <1>2, <2>1
    <2> QED
      BY <1>a, <1>b, <2>1, <2>2
  <1> QED
    BY <1>3, <1>4, <1>5, <1>6 DEF Consumer

LEMMA StoredByMove ==
    ASSUME Good, NEW c \in Consumers, MoveElement(c), NEW i \in Nat
    PROVE  Stored(i)' <=> Stored(i) /\ i # found[c].index
  <1>1. /\ headIndex \in Nat /\ tailIndex \in Nat /\ element \in [Consumers -> Nat] /\ TypeOK
        /\ Consumer(c)
    BY Basics DEF Good, LayoutInv, Consumer
  <1>2. /\ \A d \in Consumers \ {c} :
              (Unmoved(d)' <=> Unmoved(d)) /\ found'[d].index = found[d].index
        /\ tailIndex' = tailIndex /\ ppc' = ppc
    BY <1>1, ProducerStays DEF Unmoved
  <1>3. /\ headIndex' = headIndex /\ InHand(c) /\ Unmoved(c) /\ pc'[c] = "empty"
    BY HandSteps
  <1>4. /\ found[c].index < headIndex /\ found[c].index \in Nat
        /\ \A d \in Consumers \ {c} : InHand(d) => found[d].index # found[c].index
    BY <1>3, InHandFacts
  <1>5. \A d \in Consumers \ {c} : Unmoved(d) => InHand(d)
    BY DEF Unmoved, InHand
  <1> DEFINE Here == \E d \in Consumers : Unmoved(d) /\ found[d].index = i
  <1>a. Stored(i) <=> (i < tailIndex \/ (i = tailIndex /\ ppc = "commit"))
                          /\ (i >= headIndex \/ Here)
    BY DEF Stored, Unmoved
  <1>b. Stored(i)' <=> (i < tailIndex \/ (i = tailIndex /\ ppc = "commit"))
                          /\ (i >= headIndex' \/ Here')
    BY <1>2 DEF Stored, Unmoved
  <1>6. ~Unmoved(c)'
    BY <1>3 DEF Unmoved
  <1>7. Here' <=> Here /\ i # found[c].index
    BY <1>2, <1>3, <1>4, <1>5, <1>6
  <1>8. i >= headIndex => i # found[c].index
    BY <1>1, <1>4
  <1> QED
    BY <1>a, <1>b, <1>3, <1>7, <1>8

\* Among the producer's steps, the construction of an element stores it, and what
\* was constructed stays stored when it is committed.
LEMMA StoredByOthers ==
    ASSUME Good, NoConsumer, NEW i \in Nat
    PROVE  Stored(i)' <=> Stored(i) \/ (WriteElement /\ i = tailIndex)
  <1>1. /\ headIndex \in Nat /\ tailIndex \in Nat /\ headIndex <= tailIndex
    BY Basics DEF Good, HeadNeverPassesTail
  <1>2. UNCHANGED <<headIndex, pc, found>>
    BY ConsumersStay
  <1> DEFINE Here == \E d \in Consumers : Unmoved(d) /\ found[d].index = i
             There == i < tailIndex \/ (i = tailIndex /\ ppc = "commit")
  <1>a. Stored(i) <=> There /\ (i >= headIndex \/ Here)
    BY DEF Stored, Unmoved
  <1>b. Stored(i)' <=> There' /\ (i >= headIndex \/ Here)
    BY <1>2 DEF Stored, Unmoved
  <1>3. CASE WriteElement
    <2>1. tailIndex' = tailIndex /\ ppc = "write" /\ ppc' = "commit"
      BY <1>3 DEF WriteElement, counters
    <2>2. There' <=> There \/ i = tailIndex
      BY <2>1
    <2>3. i = tailIndex => i >= headIndex
      BY <1>1
    <2> QED
      BY <1>a, <1>b, <1>3, <2>2, <2>3
  <1>4. CASE Commit
    <2>1. tailIndex' = tailIndex + 1 /\ ppc = "commit" /\ ppc' = "idle"
      BY <1>4 DEF Commit
    <2>2. There' <=> There
      BY <1>1, <2>1
    <2>3. ~WriteElement
      BY <2>1 DEF WriteElement
    <2> QED
      BY <1>a, <1>b, <2>2, <2>3
  <1>5. CASE ~WriteElement /\ ~Commit
    <2>1. tailIndex' = tailIndex /\ (ppc' = "commit" <=> ppc = "commit")
      <3> USE DEF counters, producer, vars
      <3>1. CASE Producer
        BY <1>5, <3>1 DEF Producer, EnqueueStart, CheckRoom, InsertKey, InsertRefused,
           AdvanceIndex, Requisition, RequisitionFails, RewindIndex, ClearEntry, ResetEmpty,
           PublishBlock
      <3>2. ASSUME NEW b \in Blocks, Settle(b) \/ OtherTakes(b) \/ OtherReturns(b)
            PROVE  tailIndex' = tailIndex /\ ppc' = ppc
        BY <3>2 DEF Settle, OtherTakes, OtherReturns
      <3>3. CASE Destroy \/ UNCHANGED vars
        BY <3>3 DEF Destroy, AllReturned
      <3> QED
        BY <3>1, <3>2, <3>3 DEF NoConsumer
    <2>2. There' <=> There
      BY <2>1
    <2> QED
      BY <1>5, <1>a, <1>b, <2>2
  <1> QED
    BY <1>3, <1>4, <1>5

-----------------------------------------------------------------------------
(* Counting the emptied indices of a block *)

LEMMA CountOfBlock ==
    ASSUME NEW k \in Nat, NEW E \in SUBSET InBlock(k), NEW i \in InBlock(k) \ E
    PROVE  /\ Cardinality(E) \in Nat
           /\ Cardinality(E \cup {i}) = Cardinality(E) + 1
           /\ Cardinality(E) = BlockSize - 1 <=> E \cup {i} = InBlock(k)
  <1>1. BlockSize \in Nat /\ BlockSize > 0
    BY SizeAssumption
  <1>2. IsFiniteSet(InBlock(k)) /\ Cardinality(InBlock(k)) = BlockSize
    <2>1. k \in Int /\ k + BlockSize - 1 \in Int /\ ~(k > k + BlockSize - 1)
          /\ (k + BlockSize - 1) - k + 1 = BlockSize
      BY <1>1
    <2> QED
      BY <2>1, FS_Interval DEF InBlock
  <1>3. IsFiniteSet(E) /\ Cardinality(E) \in Nat
    BY <1>2, FS_Subset, FS_CardinalityType
  <1>4. Cardinality(E \cup {i}) = Cardinality(E) + 1
    BY <1>3, FS_AddElement
  <1>5. E \cup {i} \subseteq InBlock(k)
    OBVIOUS
  <1>6. Cardinality(E \cup {i}) = BlockSize => E \cup {i} = InBlock(k)
    BY <1>2, <1>5, FS_Subset
  <1> QED
    BY <1>1, <1>2, <1>3, <1>4, <1>6

LEMMA NoneEmptied ==
    ASSUME NEW k, \A i \in InBlock(k) : ~IsEmptied(i)
    PROVE  Cardinality({i \in InBlock(k) : IsEmptied(i)}) = 0
  <1>1. {i \in InBlock(k) : IsEmptied(i)} = {}
    OBVIOUS
  <1> QED
    BY <1>1, FS_EmptySet

-----------------------------------------------------------------------------
(* The ring of the block index *)

LEMMA NotDestroyed ==
    ASSUME Good, NEW c \in Consumers, pc[c] # "idle"
    PROVE  ppc # "destroyed" /\ RingRight
  BY DEF Good, LayoutInv

\* The indices of a linked block lead back to its slot.
LEMMA LinkedIndex ==
    ASSUME TypeOK, RingRight, NEW s \in Linked, NEW i \in Nat
    PROVE  /\ key[s] \in Nat /\ Cell(key[s]) = 0 /\ SlotAt(key[s]) = s
           /\ key[s] <= tailIndex /\ key[s] < Reserved
           /\ i \in InBlock(key[s]) <=> Base(i) = key[s]
           /\ i \in InBlock(key[s]) => SlotAt(i) = s
  <1>1. s \in Slots /\ key[s] \in Nat /\ key[s] # INVALID_BLOCK_BASE /\ key[s] < Reserved
    BY Basics DEF Linked, RingRight
  <1>2. Cell(key[s]) = 0 /\ SlotAt(key[s]) = s /\ key[s] <= tailIndex
    BY <1>1 DEF RingRight
  <1>3. i \in InBlock(key[s]) <=> Base(i) = key[s]
    BY <1>1, <1>2, SameBlock
  <1>4. SlotAt(Base(i)) = SlotAt(i)
    BY IndexParts
  <1> QED
    BY <1>1, <1>2, <1>3, <1>4

\* An index that is not emptied is in the block its slot is linked to.
LEMMA LiveIndex ==
    ASSUME Good, RingRight, NEW i \in Nat, i < Reserved, ~IsEmptied(i)
    PROVE  /\ SlotAt(i) \in Linked /\ key[SlotAt(i)] = Base(i)
           /\ i \in InBlock(key[SlotAt(i)])
           /\ key[SlotAt(i)] + Cell(i) = i
  <1>0. TypeOK /\ Reserved \in Nat
    BY Basics DEF Good
  <1>1. i \in 0 .. Reserved - 1
    BY <1>0
  <1>2. SlotAt(i) \in Linked /\ key[SlotAt(i)] = Base(i)
    BY <1>1 DEF RingRight
  <1> QED
    BY <1>0, <1>2, LinkedIndex, IndexParts

\* So is that of an element in a consumer's hand.
LEMMA HandIndex ==
    ASSUME Good, NEW c \in Consumers, InHand(c)
    PROVE  LET i == found[c].index IN
           /\ i \in Nat /\ i < headIndex /\ i < tailIndex /\ i < Reserved /\ ~IsEmptied(i)
           /\ RingRight /\ SlotAt(i) \in Linked /\ key[SlotAt(i)] = Base(i)
           /\ i \in InBlock(key[SlotAt(i)]) /\ key[SlotAt(i)] + Cell(i) = i
  <1> DEFINE i == found[c].index
  <1>1. /\ i \in Nat /\ i < headIndex /\ i < tailIndex /\ ~IsEmptied(i)
    BY InHandFacts
  <1>2. RingRight
    BY NotDestroyed DEF InHand
  <1>3. i < Reserved
    BY <1>1, Basics DEF Good
  <1> HIDE DEF i
  <1>4. /\ SlotAt(i) \in Linked /\ key[SlotAt(i)] = Base(i)
        /\ i \in InBlock(key[SlotAt(i)]) /\ key[SlotAt(i)] + Cell(i) = i
    BY <1>1, <1>2, <1>3, LiveIndex
  <1> QED
    BY <1>1, <1>2, <1>3, <1>4 DEF i

LEMMA OneIsNoBase == Cell(INVALID_BLOCK_BASE) # 0
  <1>1. BlockSize \in Nat /\ BlockSize > 0 /\ 1 = BlockSize * 0 + 1 /\ 1 \in 0 .. BlockSize - 1
    BY SizeAssumption
  <1>2. 1 % BlockSize = 1
    BY ONLY <1>1, Quotient
  <1> QED
    BY <1>2 DEF Cell, INVALID_BLOCK_BASE

LEMMA ZeroIsBase == Cell(0) = 0
  <1>1. BlockSize \in Nat /\ BlockSize > 0 /\ 0 = BlockSize * 0 + 0 /\ 0 \in 0 .. BlockSize - 1
    BY SizeAssumption
  <1>2. 0 % BlockSize = 0
    BY ONLY <1>1, Quotient
  <1> QED
    BY <1>2 DEF Cell

\* The slot of the last block in the middle of it, and around a base.
LEMMA TailSlots ==
    ASSUME Good
    PROVE  /\ Cell(tailIndex) # 0 => LastSlot = SlotAt(tailIndex)
           /\ Cell(tailIndex) = 0 /\ indexTail = LastSlot => NextSlot = SlotAt(tailIndex)
           /\ Cell(tailIndex) = 0 /\ indexTail = SlotAt(tailIndex) => PrevSlot = LastSlot
  <1>1. ASSUME Cell(tailIndex) # 0 PROVE LastSlot = SlotAt(tailIndex)
    <2>1. tailIndex # 0 /\ tailIndex \in Nat
      BY <1>1, ZeroIsBase, Basics DEF Good
    <2>2. tailIndex - 1 \in Nat /\ (tailIndex - 1) + 1 = tailIndex
      BY <2>1
    <2>3. SlotAt(tailIndex) = SlotAt(tailIndex - 1)
      BY <1>1, <2>2, NextIndex
    <2> QED
      BY <2>1, <2>3 DEF LastSlot
  <1> QED
    BY <1>1, SlotsAround DEF Good, NextSlot, PrevSlot

LEMMA ReservedSteps ==
    ASSUME Good, NoConsumer, ~PublishBlock
    PROVE  Reserved' = Reserved
  <1> USE DEF counters, producer, vars
  <1>1. CASE Commit
    <2>1. ppc = "commit" /\ ppc' = "idle" /\ tailIndex' = tailIndex + 1 /\ tailIndex \in Nat
      BY <1>1, Basics DEF Commit, Good
    <2>2. Reserved = Base(tailIndex) + BlockSize
      BY <2>1 DEF Reserved
    <2>3. Reserved' = IF Cell(tailIndex + 1) # 0 THEN Base(tailIndex + 1) + BlockSize
                                                  ELSE tailIndex + 1
      BY <2>1 DEF Reserved, Cell, Base
    <2> QED
      BY <2>1, <2>2, <2>3, NextIndex
  <1>2. CASE ~Commit
    <2>1. /\ tailIndex' = tailIndex
          /\ \/ ppc' \in {"write", "commit"} <=> ppc \in {"write", "commit"}
             \/ Cell(tailIndex) # 0
      <3>1. CASE Producer
        BY <1>2, <3>1 DEF Producer, EnqueueStart, CheckRoom, InsertKey, InsertRefused,
           AdvanceIndex, Requisition, RequisitionFails, RewindIndex, ClearEntry, ResetEmpty,
           WriteElement
      <3>2. ASSUME NEW b \in Blocks, Settle(b) \/ OtherTakes(b) \/ OtherReturns(b)
            PROVE  tailIndex' = tailIndex /\ ppc' = ppc
        BY <3>2 DEF Settle, OtherTakes, OtherReturns
      <3>3. CASE Destroy \/ UNCHANGED vars
        BY <3>3 DEF Destroy, AllReturned
      <3> QED
        BY <3>1, <3>2, <3>3 DEF NoConsumer
    <2> QED
      BY <2>1 DEF Reserved, Cell, Base
  <1> QED
    BY <1>1, <1>2

\* The producer's steps between its checks and the new block are at a base.
LEMMA AtBase ==
    ASSUME Good, ppc \notin {"idle", "write", "commit", "destroyed"}
    PROVE  Cell(tailIndex) = 0 /\ Base(tailIndex) = tailIndex /\ Reserved = tailIndex
  <1>1. Cell(tailIndex) = 0
    BY DEF Good, RoomInv
  <1>2. /\ tailIndex \in Nat /\ Base(tailIndex) \in Nat
        /\ tailIndex = Base(tailIndex) + Cell(tailIndex)
    BY Basics DEF Good
  <1> QED
    BY <1>1, <1>2 DEF Reserved

\* Steps that leave the linked slots, their keys and the emptied indices as they are.
LEMMA RingFrame ==
    ASSUME Good, RingRight, TypeOK',
           indexTail' = (IF ppc \in {"requisition", "rewind", "reset", "publish", "write",
                                     "commit"} THEN SlotAt(tailIndex) ELSE LastSlot)',
           tailIndex <= tailIndex', Reserved' = Reserved, tailBlock' = tailBlock,
           Linked' = Linked, \A s \in Linked : value'[s] = value[s],
           \A s \in Slots : key'[s] = key[s] \/ (s \notin Linked /\ key'[s] = tailIndex
                                /\ Cell(tailIndex) = 0 /\ s = SlotAt(tailIndex)),
           \A i \in Nat : IsEmptied(i)' <=> IsEmptied(i),
           \A c \in Consumers : pc[c] = "unlink" => pc'[c] = "unlink" /\ found'[c] = found[c]
    PROVE  RingRight'
  <1>0. /\ Reserved \in Nat /\ tailIndex \in Nat /\ tailIndex' \in Nat /\ TypeOK
        /\ BlockSize \in Nat
    BY Basics DEF Good, TypeOK
  <1>1. ASSUME NEW s \in Slots, key'[s] # INVALID_BLOCK_BASE
        PROVE  key'[s] <= tailIndex' /\ Cell(key'[s]) = 0 /\ SlotAt(key'[s]) = s
    <2>1. CASE key'[s] = key[s]
      <3>1. key[s] <= tailIndex /\ Cell(key[s]) = 0 /\ SlotAt(key[s]) = s /\ key[s] \in Nat
        BY <1>1, <2>1, Basics DEF RingRight, Good
      <3> QED
        BY <1>0, <2>1, <3>1
    <2>2. CASE key'[s] # key[s]
      BY <1>0, <2>2
    <2> QED
      BY <2>1, <2>2
  <1>2. ASSUME NEW i \in 0 .. Reserved - 1
        PROVE  /\ key'[SlotAt(i)] # INVALID_BLOCK_BASE
               /\ ~IsEmptied(i)' => key'[SlotAt(i)] = Base(i) /\ SlotAt(i) \in Linked'
               /\ ~IsEmptied(i)' /\ i >= Reserved - BlockSize => tailBlock' = value'[SlotAt(i)]
    <2>1. i \in Nat /\ SlotAt(i) \in Slots
      BY <1>0, IndexParts
    <2>2. /\ key[SlotAt(i)] # INVALID_BLOCK_BASE
          /\ ~IsEmptied(i) => key[SlotAt(i)] = Base(i) /\ SlotAt(i) \in Linked
          /\ ~IsEmptied(i) /\ i >= Reserved - BlockSize => tailBlock = value[SlotAt(i)]
      BY DEF RingRight
    <2>3. key'[SlotAt(i)] # INVALID_BLOCK_BASE
      BY <2>1, <2>2, OneIsNoBase
    <2> QED
      BY <2>1, <2>2, <2>3
  <1>3. ASSUME NEW s \in Linked
        PROVE  /\ key'[s] # INVALID_BLOCK_BASE /\ key'[s] < Reserved
               /\ \/ \E i \in InBlock(key'[s]) : ~IsEmptied(i)'
                  \/ \E c \in Consumers : pc'[c] = "unlink" /\ found'[c].entry = s
    <2>1. s \in Slots /\ key'[s] = key[s] /\ key[s] \in Nat
      BY Basics DEF Linked, Good
    <2>2. \A i \in InBlock(key[s]) : i \in Nat
      BY <1>0, <2>1 DEF InBlock
    <2>3. /\ key[s] # INVALID_BLOCK_BASE /\ key[s] < Reserved
          /\ \/ \E i \in InBlock(key[s]) : ~IsEmptied(i)
             \/ \E c \in Consumers : pc[c] = "unlink" /\ found[c].entry = s
      BY DEF RingRight
    <2> QED
      BY <2>1, <2>2, <2>3
  <1> QED
    BY <1>1, <1>2, <1>3 DEF RingRight, InBlock, SlotAt, Cell, Base

\* The steps that touch neither a slot nor the set of linked blocks.
LEMMA RingPlain ==
    ASSUME Good, RingRight, TypeOK',
           \/ EnqueueStart \/ CheckRoom \/ InsertKey \/ InsertRefused \/ AdvanceIndex
           \/ Requisition \/ RequisitionFails \/ RewindIndex \/ ClearEntry \/ ResetEmpty
           \/ WriteElement \/ Commit
    PROVE  RingRight'
  <1> DEFINE atTail == {"requisition", "rewind", "reset", "publish", "write", "commit"}
             where == IF ppc \in atTail THEN SlotAt(tailIndex) ELSE LastSlot
  <1>0. NoConsumer /\ ~PublishBlock
    BY DEF NoConsumer, Producer, EnqueueStart, CheckRoom, InsertKey, InsertRefused,
       AdvanceIndex, Requisition, RequisitionFails, RewindIndex, ClearEntry, ResetEmpty,
       WriteElement, Commit, PublishBlock
  <1>1. /\ Reserved' = Reserved /\ UNCHANGED <<pc, found>>
        /\ \A i \in Nat : IsEmptied(i)' <=> IsEmptied(i)
        /\ tailIndex \in Nat /\ TypeOK
    BY <1>0, ReservedSteps, ConsumersStay, Basics DEF Good
  <1>2. indexTail = where
    BY DEF RingRight
  <1>3. tailBlock' = tailBlock
    BY DEF EnqueueStart, CheckRoom, InsertKey, InsertRefused,
       AdvanceIndex, Requisition, RequisitionFails, RewindIndex, ClearEntry, ResetEmpty,
       WriteElement, Commit, producer
  <1>4. tailIndex' = tailIndex \/ Commit
    BY DEF EnqueueStart, CheckRoom, InsertKey, InsertRefused,
       AdvanceIndex, Requisition, RequisitionFails, RewindIndex, ClearEntry, ResetEmpty,
       WriteElement, counters
  <1>5. tailIndex <= tailIndex'
    BY <1>1, <1>4 DEF Commit
  <1>6. tailIndex' = tailIndex => where' = IF ppc' \in atTail THEN SlotAt(tailIndex) ELSE LastSlot
    BY DEF LastSlot, SlotAt
  <1>7. indexTail' = where'
    <2>1. CASE EnqueueStart
      <3>1. /\ ppc = "idle" /\ ppc' = IF Cell(tailIndex) = 0 THEN "room" ELSE "write"
            /\ indexTail' = indexTail /\ tailIndex' = tailIndex
        BY <2>1 DEF EnqueueStart, blockIndex, counters
      <3> QED
        BY <1>2, <1>6, <3>1, TailSlots
    <2>2. CASE CheckRoom \/ InsertKey \/ InsertRefused \/ Requisition \/ RequisitionFails
                \/ ClearEntry \/ ResetEmpty \/ WriteElement
      <3>1. /\ ppc' \in atTail <=> ppc \in atTail
            /\ indexTail' = indexTail /\ tailIndex' = tailIndex
        BY <2>2 DEF CheckRoom, InsertKey, InsertRefused, Requisition, RequisitionFails,
           ClearEntry, ResetEmpty, WriteElement, blockIndex, counters
      <3> QED
        BY <1>2, <1>6, <3>1
    <2>3. CASE AdvanceIndex
      <3>1. ppc = "advance" /\ ppc' = "requisition" /\ indexTail' = NextSlot
            /\ tailIndex' = tailIndex
        BY <2>3 DEF AdvanceIndex, counters
      <3> QED
        BY <1>2, <1>6, <3>1, TailSlots, AtBase
    <2>4. CASE RewindIndex
      <3>1. ppc = "rewind" /\ ppc' = "clear" /\ indexTail' = PrevSlot
            /\ tailIndex' = tailIndex
        BY <2>4 DEF RewindIndex, counters
      <3> QED
        BY <1>2, <1>6, <3>1, TailSlots, AtBase
    <2>5. CASE Commit
      <3>1. ppc = "commit" /\ ppc' = "idle" /\ indexTail' = indexTail
            /\ tailIndex' = tailIndex + 1
        BY <2>5 DEF Commit, blockIndex
      <3>2. tailIndex + 1 # 0 /\ (tailIndex + 1) - 1 = tailIndex
        BY <1>1
      <3>3. LastSlot' = SlotAt(tailIndex)
        BY <3>1, <3>2 DEF LastSlot, SlotAt
      <3> QED
        BY <1>2, <3>1, <3>3
    <2> QED
      BY <2>1, <2>2, <2>3, <2>4, <2>5
  <1>8. /\ Linked' = Linked /\ \A s \in Linked : value'[s] = value[s]
        /\ \A s \in Slots : key'[s] = key[s] \/ (s \notin Linked /\ key'[s] = tailIndex
                                /\ Cell(tailIndex) = 0 /\ s = SlotAt(tailIndex))
    <2>0. key \in [Slots -> Nat] /\ value \in [Slots -> Blocks \cup {Null, Garbage}]
      BY DEF Good, TypeOK
    <2>1. CASE InsertKey
      <3>1. /\ ppc = "insert" /\ SlotReusable(NextSlot) /\ value' = value
            /\ key' = [key EXCEPT ![NextSlot] = tailIndex]
        BY <2>1 DEF InsertKey
      <3>2. Cell(tailIndex) = 0 /\ NextSlot = SlotAt(tailIndex)
        BY <1>2, <3>1, TailSlots, AtBase
      <3>3. NextSlot \notin Linked
        BY <3>1, PointerAssumption DEF SlotReusable, RingRight, Linked
      <3> QED
        BY <2>0, <3>1, <3>2, <3>3 DEF Linked
    <2>2. CASE ClearEntry
      <3>1. ppc = "clear" /\ key' = key /\ value' = [value EXCEPT ![NextSlot] = Null]
        BY <2>2 DEF ClearEntry
      <3>2. NextSlot = SlotAt(tailIndex)
        BY <1>2, <3>1, TailSlots, AtBase
      <3>3. NextSlot \notin Linked
        BY <3>1, <3>2 DEF Good, LayoutInv, EnqueueRight
      <3> QED
        BY <2>0, <3>1, <3>3, PointerAssumption DEF Linked
    <2>3. CASE ~InsertKey /\ ~ClearEntry
      <3>1. key' = key /\ value' = value
        BY <2>3 DEF EnqueueStart, CheckRoom, InsertRefused, AdvanceIndex, Requisition,
           RequisitionFails, RewindIndex, ResetEmpty, WriteElement, Commit, blockIndex
      <3> QED
        BY <3>1 DEF Linked
    <2> QED
      BY <2>1, <2>2, <2>3
  <1> QED
    BY <1>1, <1>3, <1>5, <1>7, <1>8, RingFrame

\* The new block is linked in its slot, which was free.
LEMMA RingPublish ==
    ASSUME Good, RingRight, TypeOK', PublishBlock
    PROVE  /\ RingRight'
           /\ SlotAt(tailIndex) \notin Linked /\ Linked' = Linked \cup {SlotAt(tailIndex)}
           /\ \A s \in Linked : value'[s] = value[s]
           /\ value'[SlotAt(tailIndex)] = newBlock /\ newBlock \in Blocks
           /\ key[SlotAt(tailIndex)] = tailIndex
  <1> DEFINE T == tailIndex
             h == SlotAt(tailIndex)
  <1>0. /\ T \in Nat /\ BlockSize \in Nat /\ BlockSize > 1 /\ headIndex \in Nat
        /\ headIndex <= T /\ h \in Slots /\ Reserved \in Nat /\ TypeOK
    BY Basics DEF Good, HeadNeverPassesTail
  <1>1. /\ ppc = "publish" /\ ppc' = "write" /\ tailBlock' = newBlock
        /\ value' = [value EXCEPT ![indexTail] = newBlock]
        /\ UNCHANGED <<tailIndex, headIndex, key, indexTail, pc, found>>
    BY DEF PublishBlock, counters, consumer
  <1>2. /\ Cell(T) = 0 /\ Base(T) = T /\ Reserved = T
        /\ indexTail = h
    BY <1>1, AtBase DEF RingRight
  <1>3. Reserved' = T + BlockSize
    BY <1>1, <1>2 DEF Reserved, Base, Cell
  <1>4. newBlock \in Blocks /\ key[h] = T /\ h \notin Linked
    BY <1>1 DEF Good, TypeOK, LayoutInv, EnqueueRight
  <1>5. \A i \in Nat : IsEmptied(i)' <=> IsEmptied(i)
    BY ConsumersStay DEF NoConsumer, Producer
  <1>6. \A i \in Nat : i >= T => ~IsEmptied(i)
    BY <1>0 DEF IsEmptied
  <1>7. /\ value'[h] = newBlock /\ \A s \in Slots \ {h} : value'[s] = value[s]
        /\ Linked' = Linked \cup {h}
    BY <1>0, <1>1, <1>2, <1>4 DEF Linked, Good, TypeOK
  <1>8. \A s \in Linked : value'[s] = value[s]
    BY <1>4, <1>7 DEF Linked
  <1>9. RingRight'
    <2>1. indexTail' = (IF ppc \in {"requisition", "rewind", "reset", "publish", "write",
                                    "commit"} THEN SlotAt(tailIndex) ELSE LastSlot)'
      BY <1>1, <1>2 DEF SlotAt
    <2>2. ASSUME NEW s \in Slots, key'[s] # INVALID_BLOCK_BASE
          PROVE  key'[s] <= tailIndex' /\ Cell(key'[s]) = 0 /\ SlotAt(key'[s]) = s
      BY <1>1, <2>2 DEF RingRight
    <2>3. ASSUME NEW i \in 0 .. T + BlockSize - 1
          PROVE  /\ key'[SlotAt(i)] # INVALID_BLOCK_BASE
                 /\ ~IsEmptied(i)' => key'[SlotAt(i)] = Base(i) /\ SlotAt(i) \in Linked'
                 /\ ~IsEmptied(i)' /\ i >= T => tailBlock' = value'[SlotAt(i)]
      <3>1. i \in Nat
        BY <1>0
      <3>2. CASE i < T
        <4>1. i \in 0 .. Reserved - 1 /\ ~(i >= T)
          BY <1>0, <1>2, <3>1, <3>2
        <4>2. /\ key[SlotAt(i)] # INVALID_BLOCK_BASE
              /\ ~IsEmptied(i) => key[SlotAt(i)] = Base(i) /\ SlotAt(i) \in Linked
          BY <4>1 DEF RingRight
        <4> QED
          BY <1>1, <1>5, <1>7, <3>1, <4>1, <4>2
      <3>3. CASE i >= T
        <4>1. i \in InBlock(T)
          BY <1>0, <3>1, <3>3 DEF InBlock
        <4>2. Base(i) = T
          BY <1>0, <1>2, <3>1, <4>1, SameBlock
        <4>3. SlotAt(i) = h
          <5>1. SlotAt(Base(i)) = SlotAt(i)
            BY <3>1, IndexParts
          <5> QED
            BY <4>2, <5>1
        <4>4. key[h] # INVALID_BLOCK_BASE
          BY <1>2, <1>4, OneIsNoBase
        <4> QED
          BY <1>1, <1>4, <1>7, <4>2, <4>3, <4>4
      <3> QED
        BY <1>0, <3>1, <3>2, <3>3
    <2>4. ASSUME NEW s \in Linked'
          PROVE  /\ key'[s] # INVALID_BLOCK_BASE /\ key'[s] < T + BlockSize
                 /\ \/ \E i \in InBlock(key'[s]) : ~IsEmptied(i)'
                    \/ \E c \in Consumers : pc'[c] = "unlink" /\ found'[c].entry = s
      <3>1. CASE s = h
        <4>1. T \in InBlock(T) /\ T < T + BlockSize
          BY <1>0 DEF InBlock
        <4>2. T # INVALID_BLOCK_BASE
          BY <1>2, OneIsNoBase
        <4> QED
          BY <1>0, <1>1, <1>4, <1>5, <1>6, <3>1, <4>1, <4>2
      <3>2. CASE s \in Linked
        <4>1. /\ key[s] # INVALID_BLOCK_BASE /\ key[s] < T /\ key[s] \in Nat
              /\ \/ \E i \in InBlock(key[s]) : ~IsEmptied(i)
                 \/ \E c \in Consumers : pc[c] = "unlink" /\ found[c].entry = s
          BY <1>2, <3>2, <1>0, LinkedIndex, ZeroIsBase DEF RingRight
        <4>2. \A i \in InBlock(key[s]) : i \in Nat
          BY <1>0, <4>1 DEF InBlock
        <4>3. key[s] < T + BlockSize
          BY <1>0, <4>1
        <4> QED
          BY <1>1, <1>5, <4>1, <4>2, <4>3
      <3> QED
        BY <1>7, <3>1, <3>2
    <2>5. Reserved' - BlockSize = T
      BY <1>0, <1>3
    <2>6. /\ \A i \in 0 .. Reserved' - 1 :
                /\ key'[SlotAt(i)] # INVALID_BLOCK_BASE
                /\ ~IsEmptied(i)' => key'[SlotAt(i)] = Base(i) /\ SlotAt(i) \in Linked'
                /\ ~IsEmptied(i)' /\ i >= Reserved' - BlockSize => tailBlock' = value'[SlotAt(i)]
          /\ \A s \in Linked' : key'[s] < Reserved'
      <3> HIDE DEF T, h
      <3> QED
        BY <1>0, <1>3, <2>3, <2>4, <2>5
    <2> HIDE DEF T, h
    <2> QED
      BY <2>1, <2>2, <2>4, <2>6 DEF RingRight, InBlock, SlotAt, Cell, Base
  <1> QED
    BY <1>4, <1>7, <1>8, <1>9

\* set_empty counts one more index of its block, and the last one is told by the count.
LEMMA SetEmptyCounts ==
    ASSUME Good, NEW c \in Consumers, SetEmpty(c)
    PROVE  LET i == found[c].index
               s == found[c].entry
               E == {j \in InBlock(key[s]) : IsEmptied(j)}
           IN  /\ s = SlotAt(i) /\ s \in Linked /\ key[s] = Base(i) /\ key[s] \in Nat
               /\ i \in Nat /\ i \in InBlock(key[s]) \ E
               /\ elementsCompletelyDequeued[value[s]] = Cardinality(E)
               /\ elementsCompletelyDequeued' =
                     [elementsCompletelyDequeued EXCEPT ![value[s]] = Cardinality(E) + 1]
               /\ {j \in InBlock(key[s]) : IsEmptied(j)'} = E \cup {i}
               /\ Cardinality(E \cup {i}) = Cardinality(E) + 1
               /\ \/ pc'[c] = "unlink" /\ found' = found /\ element' = element
                     /\ E \cup {i} = InBlock(key[s])
                  \/ pc'[c] = "idle" /\ E \cup {i} # InBlock(key[s])
                     /\ element'[c] = NoMessage
  <1> DEFINE i == found[c].index
             s == found[c].entry
             E == {j \in InBlock(key[s]) : IsEmptied(j)}
  <1>0. pc[c] = "empty" /\ InHand(c)
    BY SetEmptyDoes
  <1>1. s = SlotAt(i) /\ s \in Linked /\ found[c].block = value[s]
    BY <1>0 DEF Good, LayoutInv, ClaimRight
  <1>2. i \in Nat /\ key[s] = Base(i) /\ i \in InBlock(key[s]) /\ ~IsEmptied(i) /\ RingRight
    BY <1>0, <1>1, HandIndex
  <1>3. key[s] \in Nat
    BY <1>1, Basics DEF Linked, Good
  <1>4. elementsCompletelyDequeued[value[s]] = Cardinality(E)
    BY <1>1 DEF Good, LayoutInv, ContentsRight
  <1>5. /\ Cardinality(E) \in Nat /\ Cardinality(E \cup {i}) = Cardinality(E) + 1
        /\ Cardinality(E) = BlockSize - 1 <=> E \cup {i} = InBlock(key[s])
    <2>1. key[s] \in Nat /\ E \in SUBSET InBlock(key[s]) /\ i \in InBlock(key[s]) \ E
      BY <1>2, <1>3
    <2> HIDE DEF i, s, E
    <2>2. PICK k, F, j : k = key[s] /\ F = E /\ j = i
      OBVIOUS
    <2>3. k \in Nat /\ F \in SUBSET InBlock(k) /\ j \in InBlock(k) \ F
      BY <2>1, <2>2
    <2>4. /\ Cardinality(F) \in Nat /\ Cardinality(F \cup {j}) = Cardinality(F) + 1
          /\ Cardinality(F) = BlockSize - 1 <=> F \cup {j} = InBlock(k)
      BY ONLY <2>3, CountOfBlock
    <2> QED
      BY <2>2, <2>4
  <1>6. \A j \in InBlock(key[s]) : j \in Nat
    BY <1>3, SizeAssumption DEF InBlock
  <1>7. {j \in InBlock(key[s]) : IsEmptied(j)'} = E \cup {i}
    BY <1>2, <1>6, EmptiedBySet
  <1>8. elementsCompletelyDequeued' =
           [elementsCompletelyDequeued EXCEPT ![value[s]] = Cardinality(E) + 1]
    BY <1>1, <1>4 DEF SetEmpty
  <1>9. \/ pc'[c] = "unlink" /\ found' = found /\ element' = element
           /\ E \cup {i} = InBlock(key[s])
        \/ pc'[c] = "idle" /\ E \cup {i} # InBlock(key[s])
           /\ element'[c] = NoMessage
    <2> DEFINE last == LastOfBlock(elementsCompletelyDequeued[found[c].block])
    <2>1. last <=> E \cup {i} = InBlock(key[s])
      BY <1>1, <1>4, <1>5 DEF LastOfBlock
    <2>2. pc \in [Consumers -> ConsumerSteps] /\ element \in [Consumers -> Nat]
      BY DEF Good, TypeOK, LayoutInv
    <2>3. /\ pc' = [pc EXCEPT ![c] = IF last THEN "unlink" ELSE "idle"]
          /\ IF last THEN Keep ELSE Return(c)
      BY DEF SetEmpty, Goto
    <2> HIDE DEF last, E, i, s
    <2>4. CASE last
      BY <2>1, <2>2, <2>3, <2>4 DEF Keep
    <2>5. CASE ~last
      BY <2>1, <2>2, <2>3, <2>5 DEF Return
    <2> QED
      BY <2>4, <2>5
  <1> QED
    BY <1>1, <1>2, <1>3, <1>4, <1>5, <1>7, <1>8, <1>9

\* While a block is being unlinked all of its indices are emptied.
LEMMA UnlinkDoes ==
    ASSUME Good, NEW c \in Consumers, UnlinkBlock(c)
    PROVE  LET s == found[c].entry IN
           /\ pc[c] = "unlink" /\ pc'[c] = "free" /\ found' = found /\ element' = element
           /\ s \in Linked /\ found[c].block = value[s] /\ value[s] \in Blocks
           /\ \A j \in InBlock(key[s]) : IsEmptied(j)
           /\ \A d \in Consumers \ {c} : pc[d] = "unlink" => found[d].entry # s
           /\ \A r \in Slots \ {s} : value'[r] = value[r]
           /\ value'[s] = Null /\ Linked' = Linked \ {s}
           /\ UNCHANGED <<elements, elementsCompletelyDequeued, freeing>>
  <1> DEFINE s == found[c].entry
  <1>0. /\ pc \in [Consumers -> ConsumerSteps] /\ s \in Slots
        /\ value \in [Slots -> Blocks \cup {Null, Garbage}]
    BY Basics DEF Good, TypeOK
  <1>1. /\ pc[c] = "unlink" /\ pc'[c] = "free" /\ found' = found /\ element' = element
        /\ UNCHANGED <<elements, elementsCompletelyDequeued, freeing>>
        /\ value' = [value EXCEPT ![s] = Null]
    BY <1>0 DEF UnlinkBlock, Goto, Keep, contents, places
  <1>2. /\ s \in Linked /\ found[c].block = value[s]
        /\ \A j \in InBlock(key[s]) : IsEmptied(j)
        /\ \A d \in Consumers \ {c} : pc[d] = "unlink" => found[d].entry # s
    BY <1>1 DEF Good, LayoutInv, ClaimRight
  <1>3. value'[s] = Null /\ \A r \in Slots \ {s} : value'[r] = value[r]
    BY <1>0, <1>1
  <1>4. Linked' = Linked \ {s} /\ value[s] \in Blocks
    BY <1>2, <1>3, PointerAssumption DEF Linked
  <1> QED
    BY <1>1, <1>2, <1>3, <1>4

LEMMA RingSetEmpty ==
    ASSUME Good, RingRight, TypeOK', NEW c \in Consumers, SetEmpty(c) PROVE RingRight'
  <1> DEFINE i == found[c].index
             h == found[c].entry
  <1>0. /\ Reserved \in Nat /\ TypeOK /\ element \in [Consumers -> Nat] /\ Consumer(c)
    BY Basics DEF Good, LayoutInv, Consumer
  <1>1. /\ UNCHANGED <<tailIndex, indexTail, key, ppc, tailBlock, value>>
        /\ Reserved' = Reserved /\ LastSlot' = LastSlot
        /\ \A d \in Consumers \ {c} : pc'[d] = pc[d] /\ found'[d] = found[d]
        /\ pc[c] = "empty"
    BY <1>0, ProducerStays, SetEmptyDoes
  <1>2. \A j \in Nat : IsEmptied(j)' <=> IsEmptied(j) \/ j = i
    BY EmptiedBySet
  <1>3. /\ h = SlotAt(i) /\ h \in Linked /\ key[h] = Base(i) /\ i \in Nat
        /\ \/ pc'[c] = "unlink" /\ found' = found
           \/ \E j \in InBlock(key[h]) : ~IsEmptied(j)'
    <2> DEFINE E == {j \in InBlock(key[h]) : IsEmptied(j)}
    <2>1. /\ h = SlotAt(i) /\ h \in Linked /\ key[h] = Base(i) /\ i \in Nat
          /\ {j \in InBlock(key[h]) : IsEmptied(j)'} = E \cup {i}
          /\ i \in InBlock(key[h])
          /\ \/ pc'[c] = "unlink" /\ found' = found
             \/ E \cup {i} # InBlock(key[h])
      BY SetEmptyCounts
    <2> HIDE DEF E, h, i
    <2>2. E \cup {i} # InBlock(key[h]) => \E j \in InBlock(key[h]) : ~IsEmptied(j)'
      BY <2>1
    <2> QED
      BY <2>1, <2>2
  <1>4. ASSUME NEW s \in Linked
        PROVE  \/ \E j \in InBlock(key[s]) : ~IsEmptied(j)'
               \/ \E d \in Consumers : pc'[d] = "unlink" /\ found'[d].entry = s
    <2>1. key[s] \in Nat /\ SlotAt(key[s]) = s
      BY <1>0, LinkedIndex, ZeroIsBase
    <2>2. \A j \in InBlock(key[s]) : j \in Nat
      BY <2>1, SizeAssumption DEF InBlock
    <2>3. CASE \E d \in Consumers : pc[d] = "unlink" /\ found[d].entry = s
      BY <1>1, <2>3
    <2>4. CASE \E j \in InBlock(key[s]) : ~IsEmptied(j)
      <3>1. PICK j \in InBlock(key[s]) : ~IsEmptied(j)
        BY <2>4
      <3>2. CASE j # i
        BY <1>2, <2>2, <3>1, <3>2
      <3>3. CASE j = i
        <4>1. s = h
          <5>1. i \in InBlock(key[s])
            BY <3>1, <3>3
          <5> QED
            BY <1>0, <1>3, <5>1, LinkedIndex
        <4>2. CASE pc'[c] = "unlink" /\ found' = found
          BY <4>1, <4>2
        <4>3. CASE \E m \in InBlock(key[h]) : ~IsEmptied(m)'
          BY <4>1, <4>3
        <4> QED
          BY <1>3, <4>2, <4>3
      <3> QED
        BY <3>2, <3>3
    <2> QED
      BY <2>3, <2>4 DEF RingRight
  <1>5. ASSUME NEW j \in 0 .. Reserved - 1
        PROVE  /\ key[SlotAt(j)] # INVALID_BLOCK_BASE
               /\ ~IsEmptied(j)' => key[SlotAt(j)] = Base(j) /\ SlotAt(j) \in Linked
               /\ ~IsEmptied(j)' /\ j >= Reserved - BlockSize => tailBlock = value[SlotAt(j)]
    <2>1. j \in Nat
      BY <1>0
    <2> QED
      BY <1>2, <2>1 DEF RingRight
  <1>6. Linked' = Linked
    BY <1>1 DEF Linked
  <1> HIDE DEF i, h
  <1> QED
    BY <1>1, <1>4, <1>5, <1>6 DEF RingRight, InBlock, SlotAt, Cell, Base

LEMMA RingUnlink ==
    ASSUME Good, RingRight, TypeOK', NEW c \in Consumers, UnlinkBlock(c) PROVE RingRight'
  <1> DEFINE h == found[c].entry
  <1>0. /\ Reserved \in Nat /\ TypeOK /\ element \in [Consumers -> Nat] /\ Consumer(c)
    BY Basics DEF Good, LayoutInv, Consumer
  <1>1. /\ UNCHANGED <<tailIndex, indexTail, key, ppc, tailBlock>>
        /\ Reserved' = Reserved /\ LastSlot' = LastSlot
        /\ \A d \in Consumers \ {c} : pc'[d] = pc[d] /\ found'[d] = found[d]
    BY <1>0, ProducerStays
  <1>2. \A j \in Nat : IsEmptied(j)' <=> IsEmptied(j)
    <2>1. ~SetEmpty(c)
      BY UnlinkDoes, SetEmptyDoes
    <2> QED
      BY <1>0, <2>1, EmptiedKept
  <1>3. /\ h \in Linked /\ \A j \in InBlock(key[h]) : IsEmptied(j)
        /\ \A r \in Slots \ {h} : value'[r] = value[r]
        /\ Linked' = Linked \ {h} /\ found' = found
        /\ \A d \in Consumers \ {c} : pc[d] = "unlink" => found[d].entry # h
    BY UnlinkDoes
  <1>4. ASSUME NEW s \in Linked'
        PROVE  /\ key[s] # INVALID_BLOCK_BASE /\ key[s] < Reserved
               /\ \/ \E j \in InBlock(key[s]) : ~IsEmptied(j)'
                  \/ \E d \in Consumers : pc'[d] = "unlink" /\ found'[d].entry = s
    <2>1. s \in Linked /\ s # h
      BY <1>3
    <2>2. key[s] \in Nat
      BY <1>0, <2>1, LinkedIndex, ZeroIsBase
    <2>3. \A j \in InBlock(key[s]) : j \in Nat
      BY <2>2, SizeAssumption DEF InBlock
    <2>4. /\ key[s] # INVALID_BLOCK_BASE /\ key[s] < Reserved
          /\ \/ \E j \in InBlock(key[s]) : ~IsEmptied(j)
             \/ \E d \in Consumers \ {c} : pc[d] = "unlink" /\ found[d].entry = s
      BY <2>1 DEF RingRight
    <2> QED
      BY <1>1, <1>2, <2>3, <2>4
  <1>5. ASSUME NEW j \in 0 .. Reserved - 1
        PROVE  /\ key[SlotAt(j)] # INVALID_BLOCK_BASE
               /\ ~IsEmptied(j)' => key[SlotAt(j)] = Base(j) /\ SlotAt(j) \in Linked'
               /\ ~IsEmptied(j)' /\ j >= Reserved - BlockSize => tailBlock = value'[SlotAt(j)]
    <2>1. j \in Nat /\ j < Reserved /\ SlotAt(j) \in Slots
      BY <1>0, IndexParts
    <2>2. CASE IsEmptied(j)
      BY <1>2, <2>1, <2>2 DEF RingRight
    <2>3. CASE ~IsEmptied(j)
      <3>1. SlotAt(j) \in Linked /\ j \in InBlock(key[SlotAt(j)])
        BY <2>1, <2>3, LiveIndex
      <3>2. SlotAt(j) # h
        BY <1>3, <2>3, <3>1
      <3> QED
        BY <1>2, <1>3, <2>1, <3>1, <3>2 DEF RingRight
    <2> QED
      BY <2>2, <2>3
  <1> HIDE DEF h
  <1> QED
    BY <1>1, <1>4, <1>5 DEF RingRight, InBlock, SlotAt, Cell, Base

LEMMA StepRing ==
    ASSUME Good, TypeOK', Next, ppc' # "destroyed" PROVE RingRight'
  <1>1. CASE Producer
    <2>1. RingRight
      BY <1>1 DEF Good, LayoutInv, Producer, EnqueueStart, CheckRoom, InsertKey,
         InsertRefused, AdvanceIndex, Requisition, RequisitionFails, RewindIndex, ClearEntry,
         ResetEmpty, PublishBlock, WriteElement, Commit
    <2> QED
      BY <1>1, <2>1, RingPlain, RingPublish DEF Producer
  <1>2. ASSUME NEW c \in Consumers, Consumer(c) PROVE RingRight'
    <2>0. TypeOK /\ element \in [Consumers -> Nat]
      BY DEF Good, LayoutInv
    <2>1. /\ UNCHANGED <<tailIndex, indexTail, key, ppc, tailBlock>>
          /\ Reserved' = Reserved /\ LastSlot' = LastSlot
          /\ \A d \in Consumers \ {c} : pc'[d] = pc[d] /\ found'[d] = found[d]
      BY <2>0, <1>2, ProducerStays
    <2>2. RingRight /\ tailIndex \in Nat
      BY <2>0, <2>1, Basics DEF Good, LayoutInv
    <2>3. CASE SetEmpty(c)
      BY <2>2, <2>3, RingSetEmpty
    <2>4. CASE UnlinkBlock(c)
      BY <2>2, <2>4, RingUnlink
    <2>5. CASE ~SetEmpty(c) /\ ~UnlinkBlock(c)
      <3>1. \A i \in Nat : IsEmptied(i)' <=> IsEmptied(i)
        BY <1>2, <2>5, EmptiedKept
      <3>2. value' = value /\ pc[c] # "unlink"
        <4>1. CASE LoadTail(c) \/ LoadOvercommit(c) \/ CheckAvailable(c) \/ TakeTicket(c)
                     \/ Recheck(c) \/ GiveUp(c)
          BY <2>0, <4>1, EarlySteps DEF Early
        <4>2. CASE Claim(c)
          BY <4>2, ClaimDoes
        <4>3. CASE LoadIndexTail(c) \/ LookUpSlot(c) \/ LoadBlock(c) \/ MoveElement(c)
          BY <4>3, HandSteps DEF InHand
        <4>4. CASE FreeBlock(c)
          BY <4>4 DEF FreeBlock, Goto, blockIndex
        <4> QED
          BY <1>2, <2>5, <4>1, <4>2, <4>3, <4>4 DEF Consumer
      <3>3. Linked' = Linked /\ \A s \in Linked : value'[s] = value[s]
        BY <3>2 DEF Linked
      <3>4. \A d \in Consumers : pc[d] = "unlink" => pc'[d] = "unlink" /\ found'[d] = found[d]
        BY <2>1, <3>2
      <3>5. indexTail' = (IF ppc \in {"requisition", "rewind", "reset", "publish", "write",
                                     "commit"} THEN SlotAt(tailIndex) ELSE LastSlot)'
        BY <2>1, <2>2 DEF RingRight, SlotAt
      <3> QED
        BY <2>1, <2>2, <3>1, <3>3, <3>4, <3>5, RingFrame
    <2> QED
      BY <2>3, <2>4, <2>5
  <1>3. ASSUME NEW b \in Blocks, Settle(b) \/ OtherTakes(b) \/ OtherReturns(b)
        PROVE  RingRight'
    <2>1. UNCHANGED <<tailIndex, indexTail, key, value, ppc, tailBlock>> /\ UNCHANGED <<pc, found>>
      BY <1>3 DEF Settle, OtherTakes, OtherReturns, counters, blockIndex, producer, consumer
    <2>2. Linked' = Linked /\ \A s \in Linked : value'[s] = value[s]
      BY <2>1 DEF Linked
    <2>3. RingRight /\ tailIndex \in Nat
      BY <2>1, Basics DEF Good, LayoutInv
    <2>4. indexTail' = (IF ppc \in {"requisition", "rewind", "reset", "publish", "write",
                                   "commit"} THEN SlotAt(tailIndex) ELSE LastSlot)'
      BY <2>1, <2>3 DEF RingRight, SlotAt, LastSlot
    <2>5. \A i \in Nat : IsEmptied(i)' <=> IsEmptied(i)
      BY <1>3, ConsumersStay DEF NoConsumer
    <2>6. Reserved' = Reserved
      BY <2>1 DEF Reserved, Cell, Base
    <2> QED
      BY <2>1, <2>2, <2>3, <2>4, <2>5, <2>6, RingFrame
  <1>4. CASE Destroy
    BY <1>4 DEF Destroy
  <1> QED
    BY <1>1, <1>2, <1>3, <1>4 DEF Next

-----------------------------------------------------------------------------
(* The producer's block, and the consumers' claims *)

\* A step of a consumer unlinks blocks and counts in linked ones, no others.
LEMMA ConsumerContents ==
    ASSUME Good, NEW c \in Consumers, Consumer(c)
    PROVE  /\ Linked' \subseteq Linked /\ \A s \in Linked' : value'[s] = value[s]
           /\ \A b \in Blocks \ InRing :
                 elementsCompletelyDequeued'[b] = elementsCompletelyDequeued[b]
           /\ ~MoveElement(c) => elements' = elements
  <1>0. /\ TypeOK /\ element \in [Consumers -> Nat]
        /\ elementsCompletelyDequeued \in [Blocks -> Nat]
    BY DEF Good, TypeOK, LayoutInv
  <1>1. CASE LoadTail(c) \/ LoadOvercommit(c) \/ CheckAvailable(c) \/ TakeTicket(c)
               \/ Recheck(c) \/ GiveUp(c)
    BY <1>0, <1>1, EarlySteps DEF Linked
  <1>2. CASE Claim(c)
    BY <1>2, ClaimDoes DEF Linked
  <1>3. CASE LoadIndexTail(c) \/ LookUpSlot(c) \/ LoadBlock(c) \/ MoveElement(c)
    BY <1>3, HandSteps DEF Linked
  <1>4. CASE SetEmpty(c)
    <2>1. PICK s, n :
             /\ s \in Linked
             /\ elementsCompletelyDequeued' = [elementsCompletelyDequeued EXCEPT ![value[s]] = n]
             /\ UNCHANGED <<value, elements>>
      <3>1. found[c].entry \in Linked
            /\ \E n : elementsCompletelyDequeued' =
                     [elementsCompletelyDequeued EXCEPT ![value[found[c].entry]] = n]
        BY <1>4, SetEmptyCounts
      <3>2. UNCHANGED <<value, elements>>
        BY <1>4, SetEmptyDoes
      <3> QED
        BY <3>1, <3>2
    <2>2. value[s] \in InRing
      BY <2>1 DEF InRing
    <2> QED
      BY <1>0, <2>1, <2>2 DEF Linked
  <1>5. CASE UnlinkBlock(c)
    <2>1. PICK s \in Linked :
             /\ \A r \in Slots \ {s} : value'[r] = value[r]
             /\ Linked' = Linked \ {s}
             /\ UNCHANGED <<elements, elementsCompletelyDequeued>>
      BY <1>5, UnlinkDoes
    <2>2. \A r \in Linked : r \in Slots
      BY DEF Linked
    <2> QED
      BY <2>1, <2>2
  <1>6. CASE FreeBlock(c)
    BY <1>6 DEF FreeBlock, blockIndex, contents, Linked
  <1> QED
    BY <1>1, <1>2, <1>3, <1>4, <1>5, <1>6 DEF Consumer

LEMMA NewBlockApart ==
    ASSUME Good, newBlock # Null
    PROVE  /\ newBlock \in Blocks
           /\ newBlock \notin pool \cup freeing \cup other \cup InRing \cup Released
  <1>1. newBlock \in Blocks
    BY DEF Good, TypeOK
  <1> QED
    BY <1>1 DEF Good, LayoutInv, PlacesRight

LEMMA StepEnqueue ==
    ASSUME Good, TypeOK', Next PROVE EnqueueRight'
  <1>0. /\ key \in [Slots -> Nat] /\ value \in [Slots -> Blocks \cup {Null, Garbage}]
        /\ elementsCompletelyDequeued \in [Blocks -> Nat] /\ pool \subseteq Blocks
        /\ newBlock \in Blocks \cup {Null} /\ TypeOK /\ SlotAt(tailIndex) \in Slots
        /\ element \in [Consumers -> Nat]
    BY Basics DEF Good, TypeOK, LayoutInv
  <1>1. EnqueueRight
    BY DEF Good, LayoutInv
  <1> DEFINE busy == {"advance", "requisition", "rewind", "clear", "reset", "publish"}
  <1>2. CASE EnqueueStart \/ CheckRoom \/ InsertRefused \/ AdvanceIndex \/ RequisitionFails
               \/ RewindIndex \/ WriteElement \/ Commit
    <2>1. /\ ppc' \in busy => ppc \in busy /\ tailIndex' = tailIndex
          /\ ppc' \in {"reset", "publish"} <=> ppc \in {"reset", "publish"}
          /\ ppc' # "publish"
          /\ UNCHANGED <<key, value, newBlock>>
      BY <1>2 DEF EnqueueStart, CheckRoom, InsertRefused, AdvanceIndex, RequisitionFails,
         RewindIndex, WriteElement, Commit, blockIndex, counters
    <2> QED
      BY <1>1, <2>1 DEF EnqueueRight, Linked, SlotAt
  <1>3. CASE InsertKey
    <2>1. /\ ppc = "insert" /\ SlotReusable(NextSlot) /\ ppc' = "advance"
          /\ key' = [key EXCEPT ![NextSlot] = tailIndex]
          /\ UNCHANGED <<value, tailIndex, newBlock>>
      BY <1>3 DEF InsertKey, counters
    <2>2. RingRight
      BY <2>1 DEF Good, LayoutInv
    <2>3. NextSlot = SlotAt(tailIndex)
      BY <2>1, <2>2, TailSlots, AtBase DEF RingRight
    <2>4. SlotAt(tailIndex) \notin Linked
      BY <2>1, <2>2, <2>3, PointerAssumption DEF SlotReusable, RingRight, Linked
    <2>5. key'[SlotAt(tailIndex)] = tailIndex
      BY <1>0, <2>1, <2>3
    <2> QED
      BY <1>1, <2>1, <2>4, <2>5 DEF EnqueueRight, Linked, SlotAt
  <1>4. CASE Requisition
    <2>1. /\ ppc = "requisition" /\ ppc' = "reset" /\ newBlock' \in pool
          /\ UNCHANGED <<key, value, tailIndex>>
      BY <1>4 DEF Requisition, blockIndex, counters
    <2>2. newBlock' # Null
      BY <1>0, <2>1, PointerAssumption
    <2> QED
      BY <1>1, <2>1, <2>2 DEF EnqueueRight, Linked, SlotAt
  <1>5. CASE ClearEntry
    <2>1. ppc = "clear" /\ ppc' = "idle" /\ newBlock' = newBlock
      BY <1>5 DEF ClearEntry
    <2> QED
      BY <1>1, <2>1 DEF EnqueueRight
  <1>6. CASE ResetEmpty
    <2>1. /\ ppc = "reset" /\ ppc' = "publish"
          /\ elementsCompletelyDequeued' = [elementsCompletelyDequeued EXCEPT ![newBlock] = 0]
          /\ UNCHANGED <<key, value, tailIndex, newBlock>>
      BY <1>6 DEF ResetEmpty, blockIndex, counters
    <2>2. newBlock \in Blocks
      BY <1>0, <1>1, <2>1 DEF EnqueueRight
    <2>3. elementsCompletelyDequeued'[newBlock] = 0
      BY <1>0, <2>1, <2>2
    <2> QED
      BY <1>1, <2>1, <2>3 DEF EnqueueRight, Linked, SlotAt
  <1>7. CASE PublishBlock
    <2>1. ppc' = "write" /\ newBlock' = Null
      BY <1>7 DEF PublishBlock
    <2> QED
      BY <2>1 DEF EnqueueRight
  <1>8. ASSUME NEW c \in Consumers, Consumer(c) PROVE EnqueueRight'
    <2>1. UNCHANGED <<tailIndex, key, ppc, newBlock>>
      BY <1>0, <1>8, ProducerStays
    <2>2. /\ Linked' \subseteq Linked
          /\ \A b \in Blocks \ InRing :
                elementsCompletelyDequeued'[b] = elementsCompletelyDequeued[b]
      BY <1>8, ConsumerContents
    <2>3. newBlock # Null => newBlock \in Blocks \ InRing
      BY NewBlockApart
    <2>4. SlotAt(tailIndex)' = SlotAt(tailIndex)
      BY <2>1 DEF SlotAt
    <2> QED
      BY <1>1, <2>1, <2>2, <2>3, <2>4 DEF EnqueueRight
  <1>9. ASSUME NEW b \in Blocks, Settle(b) \/ OtherTakes(b) \/ OtherReturns(b)
        PROVE  EnqueueRight'
    <2>1. UNCHANGED <<tailIndex, key, value, ppc, newBlock>>
      BY <1>9 DEF Settle, OtherTakes, OtherReturns, counters, blockIndex, producer
    <2>2. newBlock # Null =>
             elementsCompletelyDequeued'[newBlock] = elementsCompletelyDequeued[newBlock]
      <3>1. CASE Settle(b) \/ OtherTakes(b)
        BY <3>1 DEF Settle, OtherTakes, contents
      <3>2. CASE OtherReturns(b)
        BY <1>0, <3>2, NewBlockApart DEF OtherReturns
      <3> QED
        BY <1>9, <3>1, <3>2
    <2> QED
      BY <1>1, <2>1, <2>2 DEF EnqueueRight, Linked, SlotAt
  <1>10. CASE Destroy
    <2>1. ppc = "idle" /\ ppc' = "destroyed" /\ newBlock' = newBlock
      BY <1>10 DEF Destroy, AllReturned
    <2> QED
      BY <1>1, <2>1 DEF EnqueueRight
  <1> QED
    BY <1>2, <1>3, <1>4, <1>5, <1>6, <1>7, <1>8, <1>9, <1>10 DEF Next, Producer

\* Steps that do nothing to the consumers leave them what they have.
LEMMA ClaimFrame ==
    ASSUME Good, NoConsumer, ~Destroy, NEW c \in Consumers,
           \A s \in Slots : key[s] # INVALID_BLOCK_BASE => key'[s] # INVALID_BLOCK_BASE,
           \A s \in Linked : s \in Linked' /\ value'[s] = value[s] /\ key'[s] = key[s]
    PROVE  ClaimRight(c)'
  <1>1. /\ UNCHANGED <<headIndex, pc, found, element>>
        /\ \A i : IsEmptied(i)' <=> IsEmptied(i)
        /\ \A d \in Consumers : InHand(d)' <=> InHand(d)
    BY ConsumersStay
  <1>2. ClaimRight(c) /\ found[c].entry \in Slots
    BY Basics DEF Good, LayoutInv
  <1> QED
    BY <1>1, <1>2 DEF ClaimRight, InBlock, SlotAt, Base

\* Of these steps only the publication of a block and the destructor touch a linked slot.
LEMMA LinkedKept ==
    ASSUME Good, NoConsumer, ~PublishBlock, ~Destroy
    PROVE  /\ Linked' = Linked
           /\ \A s \in Linked : value'[s] = value[s] /\ key'[s] = key[s]
           /\ \A s \in Slots : key[s] # INVALID_BLOCK_BASE => key'[s] # INVALID_BLOCK_BASE
  <1>0. key \in [Slots -> Nat] /\ value \in [Slots -> Blocks \cup {Null, Garbage}]
    BY DEF Good, TypeOK
  <1>1. CASE InsertKey
    <2>1. /\ ppc = "insert" /\ SlotReusable(NextSlot) /\ value' = value
          /\ key' = [key EXCEPT ![NextSlot] = tailIndex]
      BY <1>1 DEF InsertKey
    <2>2. RingRight
      BY <2>1 DEF Good, LayoutInv
    <2>3. NextSlot \notin Linked
      BY <2>1, <2>2, PointerAssumption DEF SlotReusable, RingRight, Linked
    <2>4. tailIndex # INVALID_BLOCK_BASE
      BY <2>1, AtBase, OneIsNoBase
    <2> QED
      BY <1>0, <2>1, <2>3, <2>4 DEF Linked
  <1>2. CASE ClearEntry
    <2>1. ppc = "clear" /\ key' = key /\ value' = [value EXCEPT ![NextSlot] = Null]
      BY <1>2 DEF ClearEntry
    <2>2. RingRight
      BY <2>1 DEF Good, LayoutInv
    <2>3. NextSlot = SlotAt(tailIndex)
      BY <2>1, <2>2, TailSlots, AtBase DEF RingRight
    <2>4. NextSlot \notin Linked
      BY <2>1, <2>3 DEF Good, LayoutInv, EnqueueRight
    <2> QED
      BY <1>0, <2>1, <2>4, PointerAssumption DEF Linked
  <1>3. CASE ~InsertKey /\ ~ClearEntry
    <2> USE DEF blockIndex, vars
    <2>1. CASE Producer
      BY <1>3, <2>1 DEF Producer, EnqueueStart, CheckRoom, InsertRefused,
         AdvanceIndex, Requisition, RequisitionFails, RewindIndex, ResetEmpty,
         WriteElement, Commit, Linked
    <2>2. ASSUME NEW b \in Blocks, Settle(b) \/ OtherTakes(b) \/ OtherReturns(b)
          PROVE  UNCHANGED <<key, value>>
      BY <2>2 DEF Settle, OtherTakes, OtherReturns
    <2>3. CASE UNCHANGED vars
      BY <2>3 DEF Linked
    <2> QED
      BY <2>1, <2>2, <2>3 DEF NoConsumer, Linked
  <1> QED
    BY <1>1, <1>2, <1>3

LEMMA ClaimsByOthers ==
    ASSUME Good, TypeOK', NoConsumer, NEW c \in Consumers PROVE ClaimRight(c)'
  <1>1. CASE Destroy
    <2>1. pc[c] = "idle" /\ UNCHANGED <<pc, element, headIndex>>
      BY <1>1 DEF Destroy, AllReturned, consumer, counters
    <2>2. element[c] = NoMessage
      BY <2>1 DEF Good, LayoutInv, ClaimRight
    <2> QED
      BY <2>1, <2>2 DEF ClaimRight, InHand
  <1>2. CASE PublishBlock
    <2>1. RingRight /\ key' = key
      BY <1>2 DEF PublishBlock, Good, LayoutInv
    <2>2. Linked \subseteq Linked' /\ \A s \in Linked : value'[s] = value[s]
      BY <1>2, <2>1, RingPublish
    <2>3. ~Destroy
      BY <1>2 DEF PublishBlock, Destroy, AllReturned
    <2> QED
      BY <2>1, <2>2, <2>3, ClaimFrame
  <1>3. CASE ~Destroy /\ ~PublishBlock
    BY <1>3, LinkedKept, ClaimFrame
  <1> QED
    BY <1>1, <1>2, <1>3

\* Another consumer's step leaves a consumer what it has.
LEMMA ClaimsOfOthers ==
    ASSUME Good, NEW c \in Consumers, Consumer(c), NEW d \in Consumers \ {c}
    PROVE  ClaimRight(d)'
  <1> DEFINE i == found[d].index
             s == found[d].entry
  <1>0. /\ TypeOK /\ element \in [Consumers -> Nat] /\ headIndex \in Nat
        /\ i \in Nat /\ s \in Slots /\ found[c].index \in Nat
        /\ key \in [Slots -> Nat]
    BY Basics DEF Good, LayoutInv
  <1>1. /\ key' = key
        /\ \A e \in Consumers \ {c} : pc'[e] = pc[e] /\ found'[e] = found[e]
                                       /\ element'[e] = element[e]
    BY <1>0, ProducerStays
  <1>2. ClaimRight(d)
    BY DEF Good, LayoutInv
  <1>3. headIndex' = headIndex \/ headIndex' = headIndex + 1
    BY <1>0, EarlySteps, ClaimDoes, HandSteps, LastSteps, SetEmptyDoes DEF Consumer
  <1>4. InHand(d) \/ pc[d] \in {"unlink", "free"} => i < headIndex'
    BY <1>0, <1>2, <1>3 DEF ClaimRight
  <1>5. ASSUME InHand(d), NEW e \in Consumers \ {d}, InHand(e)' PROVE i # found'[e].index
    <2>1. CASE e # c
      <3>1. InHand(e)
        BY <1>1, <1>5, <2>1 DEF InHand
      <3> QED
        BY <1>1, <1>2, <1>5, <2>1, <3>1 DEF ClaimRight
    <2>2. CASE e = c
      <3>1. CASE Claim(c)
        BY <1>0, <1>2, <1>5, <2>2, <3>1, ClaimDoes DEF ClaimRight
      <3>2. CASE LoadIndexTail(c) \/ LookUpSlot(c) \/ LoadBlock(c) \/ MoveElement(c)
        BY <1>2, <1>5, <2>2, <3>2, HandSteps DEF ClaimRight
      <3>3. CASE LoadTail(c) \/ LoadOvercommit(c) \/ CheckAvailable(c) \/ TakeTicket(c)
                   \/ Recheck(c) \/ GiveUp(c)
        BY <1>0, <1>5, <2>2, <3>3, EarlySteps DEF InHand, Early
      <3>4. CASE SetEmpty(c) \/ UnlinkBlock(c) \/ FreeBlock(c)
        BY <1>5, <2>2, <3>4, SetEmptyDoes, LastSteps
      <3> QED
        BY <3>1, <3>2, <3>3, <3>4 DEF Consumer
    <2> QED
      BY <2>1, <2>2
  \* Its block is not the one c unlinks, which has no index left.
  <1>6. ASSUME pc[d] \in {"move", "empty", "unlink"}
        PROVE  s \in Linked' /\ value'[s] = value[s]
    <2>1. s \in Linked /\ s = SlotAt(i)
      BY <1>2, <1>6 DEF ClaimRight
    <2>2. CASE UnlinkBlock(c)
      <3>1. s # found[c].entry
        <4>1. CASE pc[d] = "unlink"
          BY <2>2, <4>1, UnlinkDoes
        <4>2. CASE pc[d] # "unlink"
          <5>1. InHand(d)
            BY <1>6, <4>2 DEF InHand
          <5>2. i \in InBlock(key[SlotAt(i)]) /\ ~IsEmptied(i)
            BY <5>1, HandIndex
          <5> QED
            BY <2>1, <2>2, <5>2, UnlinkDoes
        <4> QED
          BY <4>1, <4>2
      <3> QED
        BY <2>1, <2>2, <3>1, UnlinkDoes DEF Linked
    <2>3. CASE ~UnlinkBlock(c)
      <3>1. value' = value
        BY <1>0, <2>3, EarlySteps, ClaimDoes, HandSteps, SetEmptyDoes
           DEF Consumer, FreeBlock, blockIndex
      <3> QED
        BY <2>1, <3>1 DEF Linked
    <2> QED
      BY <2>2, <2>3
  <1>7. ASSUME pc[d] = "unlink", NEW j \in InBlock(key[s]) PROVE IsEmptied(j)'
    <2>1. IsEmptied(j)
      BY <1>2, <1>7 DEF ClaimRight
    <2>2. j \in Nat
      BY <1>0, SizeAssumption DEF InBlock
    <2> QED
      BY <2>1, <2>2, EmptiedKept, EmptiedBySet
  <1>8. ASSUME pc[d] = "unlink", NEW e \in Consumers \ {d}, pc'[e] = "unlink"
        PROVE  found'[e].entry # s
    <2>1. CASE e # c
      BY <1>1, <1>2, <1>8, <2>1 DEF ClaimRight
    <2>2. CASE e = c
      <3>1. SetEmpty(c)
        BY <1>0, <1>8, <2>2, EarlySteps, ClaimDoes, HandSteps, UnlinkDoes
           DEF Consumer, Early, InHand, FreeBlock, Goto, Good, TypeOK
      <3>2. pc[c] = "empty" /\ found' = found
        BY <1>8, <2>2, <3>1, SetEmptyDoes, SetEmptyCounts
      <3>3. /\ found[c].entry = SlotAt(found[c].index) /\ ~IsEmptied(found[c].index)
            /\ found[c].index \in InBlock(key[SlotAt(found[c].index)])
        BY <3>2, HandIndex DEF InHand, Good, LayoutInv, ClaimRight
      <3>4. \A j \in InBlock(key[s]) : IsEmptied(j)
        BY <1>2, <1>8 DEF ClaimRight
      <3> QED
        BY <2>2, <3>2, <3>3, <3>4
    <2> QED
      BY <2>1, <2>2
  <1>9. ASSUME pc[d] = "free", NEW e \in Consumers \ {d}, pc'[e] = "free"
        PROVE  found'[e].block # found[d].block
    <2>1. CASE e # c
      BY <1>1, <1>2, <1>9, <2>1 DEF ClaimRight
    <2>2. CASE e = c
      <3>1. UnlinkBlock(c)
        BY <1>0, <1>9, <2>2, EarlySteps, ClaimDoes, HandSteps, SetEmptyCounts
           DEF Consumer, Early, InHand, FreeBlock, Goto, Good, TypeOK
      <3>2. found' = found /\ found[c].entry \in Linked
            /\ found[c].block = value[found[c].entry] /\ found[c].block \in Blocks
        BY <3>1, UnlinkDoes
      <3>3. found[c].block \in InRing
        BY <3>2 DEF InRing
      <3>4. found[d].block \in Released
        BY <1>9 DEF Released
      <3>5. found[c].block \notin Released
        BY <3>2, <3>3 DEF Good, LayoutInv, PlacesRight
      <3> QED
        BY <2>2, <3>2, <3>4, <3>5
    <2> QED
      BY <2>1, <2>2
  <1>10. InHand(d)' <=> InHand(d)
    BY <1>1 DEF InHand
  <1> HIDE DEF i, s
  <1>11. /\ pc'[d] = pc[d] /\ found'[d].index = i /\ found'[d].entry = s
         /\ found'[d].block = found[d].block /\ element'[d] = element[d]
    BY <1>1 DEF i, s
  <1>12. /\ pc[d] = "key" => key[s] # INVALID_BLOCK_BASE
         /\ pc[d] \in {"value", "move", "empty", "unlink"} => s = SlotAt(i)
         /\ pc[d] \in {"move", "empty", "unlink"} => found[d].block = value[s]
         /\ pc[d] \in {"empty", "unlink", "free"} => element[d] = i + 1
         /\ pc[d] \notin {"empty", "unlink", "free"} => element[d] = NoMessage
         /\ pc[d] = "unlink" => key[s] = Base(i)
         /\ pc[d] = "free" => found[d].block \in Blocks
    BY <1>2 DEF ClaimRight, i, s
  <1> QED
    BY <1>1, <1>4, <1>5, <1>6, <1>7, <1>8, <1>9, <1>10, <1>11, <1>12
       DEF ClaimRight, InBlock, SlotAt, Base


\* Before its claim and after its return a consumer has nothing.
LEMMA NothingInHand ==
    ASSUME NEW c \in Consumers, pc'[c] \in Early, element'[c] = NoMessage
    PROVE  ClaimRight(c)'
  <1>1. /\ ~InHand(c)' /\ pc'[c] # "free" /\ pc'[c] # "key"
        /\ pc'[c] \notin {"value", "move", "empty", "unlink"}
    BY DEF Early, InHand
  <1> QED
    BY <1>1 DEF ClaimRight

\* get_block_index_index_for_index starts from a key that is one, also while the producer
\* moves the tail of the index.
LEMMA TailHasKey ==
    ASSUME Good, RingRight, tailIndex > 0
    PROVE  /\ key[indexTail] # INVALID_BLOCK_BASE /\ key[indexTail] \in Nat
           /\ Cell(key[indexTail]) = 0 /\ SlotAt(key[indexTail]) = indexTail
  <1>1. /\ tailIndex \in Nat /\ TypeOK /\ Reserved \in Nat /\ tailIndex <= Reserved
        /\ indexTail \in Slots /\ key \in [Slots -> Nat]
    BY Basics DEF Good, TypeOK
  <1>2. tailIndex - 1 \in Nat /\ tailIndex # 0
    BY <1>1
  <1>3. CASE ppc \in {"requisition", "rewind", "reset", "publish"}
    <2>1. indexTail = SlotAt(tailIndex) /\ key[SlotAt(tailIndex)] = tailIndex
      BY <1>1, <1>3 DEF RingRight, Good, LayoutInv, EnqueueRight
    <2> QED
      BY <1>1, <1>3, <2>1, AtBase, OneIsNoBase
  <1>4. CASE ppc \in {"write", "commit"}
    <2>1. indexTail = SlotAt(tailIndex)
      BY <1>1, <1>4 DEF RingRight
    <2>2. /\ Base(tailIndex) \in Nat /\ Cell(tailIndex) \in 0 .. BlockSize - 1
          /\ tailIndex = Base(tailIndex) + Cell(tailIndex) /\ BlockSize \in Nat
      BY <1>1, Basics DEF Cells
    <2>3. Reserved = Base(tailIndex) + BlockSize
      BY <1>4 DEF Reserved
    <2>4. tailIndex \in 0 .. Reserved - 1
      BY <1>1, <2>2, <2>3
    <2> QED
      BY <1>1, <2>1, <2>4 DEF RingRight
  <1>5. CASE ppc \notin {"requisition", "rewind", "reset", "publish", "write", "commit"}
    <2>1. indexTail = SlotAt(tailIndex - 1)
      BY <1>1, <1>2, <1>5 DEF RingRight, LastSlot
    <2>2. tailIndex - 1 \in 0 .. Reserved - 1
      BY <1>1, <1>2
    <2> QED
      BY <1>1, <2>1, <2>2 DEF RingRight
  <1> QED
    BY <1>1, <1>3, <1>4, <1>5 DEF RingRight

\* The element a consumer moves out is the one its claim promised.
LEMMA MovesTheRightOne ==
    ASSUME Good, NEW c \in Consumers, MoveElement(c)
    PROVE  LET i == found[c].index
               s == found[c].entry
           IN  /\ i \in Nat /\ Cell(i) \in Cells /\ s = SlotAt(i) /\ s \in Linked
               /\ value[s] \in Blocks /\ key[s] \in Nat /\ key[s] + Cell(i) = i
               /\ Stored(i) /\ element'[c] = i + 1
               /\ pc[c] = "move" /\ pc'[c] = "empty" /\ found' = found
               /\ elements' = [elements EXCEPT ![value[s]][Cell(i)] = NoMessage]
  <1> DEFINE i == found[c].index
             s == found[c].entry
  <1>0. element \in [Consumers -> Nat] /\ pc[c] = "move" /\ InHand(c) /\ Unmoved(c)
    BY DEF Good, LayoutInv, MoveElement, Goto, InHand, Unmoved
  <1>1. s = SlotAt(i) /\ s \in Linked /\ found[c].block = value[s]
    BY <1>0 DEF Good, LayoutInv, ClaimRight
  <1>2. i \in Nat /\ key[s] + Cell(i) = i /\ Stored(i)
    BY <1>0, <1>1, HandIndex, InHandFacts
  <1>3. Cell(i) \in Cells /\ value[s] \in Blocks /\ key[s] \in Nat
    BY <1>1, <1>2, IndexParts, Basics DEF Linked, Good
  <1>4. elements[value[s]][Cell(i)] = i + 1
    <2>1. elements[value[s]][Cell(i)] =
             IF Stored(key[s] + Cell(i)) THEN key[s] + Cell(i) + 1 ELSE NoMessage
      BY <1>1, <1>3 DEF Good, LayoutInv, ContentsRight
    <2> QED
      BY <1>2, <2>1
  <1>5. /\ element' = [element EXCEPT ![c] = elements[value[s]][Cell(i)]]
        /\ elements' = [elements EXCEPT ![value[s]][Cell(i)] = NoMessage]
        /\ pc'[c] = "empty" /\ found' = found
    <2>1. pc \in [Consumers -> ConsumerSteps]
      BY DEF Good, TypeOK
    <2> QED
      BY <1>1, <2>1 DEF MoveElement, Goto
  <1> QED
    BY <1>0, <1>1, <1>2, <1>3, <1>4, <1>5

\* What a consumer has after each step of its own.
LEMMA ClaimByClaim ==
    ASSUME Good, NEW c \in Consumers, Claim(c)
    PROVE  ClaimRight(c)' /\ element'[c] = NoMessage
  <1>0. /\ TypeOK /\ element \in [Consumers -> Nat] /\ Consumer(c) /\ headIndex \in Nat
    BY Basics DEF Good, LayoutInv, Consumer
  <1>1. /\ pc[c] = "claim" /\ pc'[c] = "slot" /\ found'[c].index = headIndex
        /\ headIndex' = headIndex + 1 /\ element' = element
    BY ClaimDoes
  <1>2. element[c] = NoMessage
    BY <1>1 DEF Good, LayoutInv, ClaimRight
  <1>3. ASSUME NEW d \in Consumers \ {c}, InHand(d)' PROVE found'[c].index # found'[d].index
    <2>1. pc'[d] = pc[d] /\ found'[d] = found[d]
      BY <1>0, ProducerStays
    <2>2. InHand(d)
      BY <1>3, <2>1 DEF InHand
    <2>3. found[d].index \in Nat /\ found[d].index < headIndex
      BY <2>2, InHandFacts
    <2> QED
      BY <1>0, <1>1, <2>1, <2>3
  <1>4. headIndex < headIndex + 1
    BY <1>0
  <1>5. pc'[c] \notin {"key", "value", "move", "empty", "unlink", "free"}
    BY <1>1
  <1> QED
    BY <1>1, <1>2, <1>3, <1>4, <1>5 DEF ClaimRight

LEMMA ClaimByHand ==
    ASSUME Good, NEW c \in Consumers,
           LoadIndexTail(c) \/ LookUpSlot(c) \/ LoadBlock(c) \/ MoveElement(c)
    PROVE  ClaimRight(c)' /\ element'[c] \in Nat
  <1> DEFINE i == found[c].index
             s == found[c].entry
             f == found'[c]
  <1>0. /\ TypeOK /\ element \in [Consumers -> Nat] /\ Consumer(c)
        /\ found \in [Consumers -> FoundType] /\ i \in Nat /\ s \in Slots
        /\ pc \in [Consumers -> ConsumerSteps]
    BY Basics DEF Good, LayoutInv, Consumer, TypeOK
  <1>1. /\ InHand(c) /\ InHand(c)' /\ Unmoved(c) /\ f.index = i
        /\ UNCHANGED <<headIndex, value>>
    BY HandSteps
  <1>2. /\ RingRight /\ SlotAt(i) \in Linked /\ i < headIndex
        /\ \A d \in Consumers \ {c} : InHand(d) => i # found[d].index
    BY <1>1, HandIndex, InHandFacts
  <1>3. key' = key /\ Linked' = Linked
        /\ \A d \in Consumers \ {c} : pc'[d] = pc[d] /\ found'[d] = found[d]
    BY <1>0, <1>1, ProducerStays DEF Linked
  <1>4. \A d \in Consumers \ {c} : InHand(d)' => i # found'[d].index
    BY <1>2, <1>3 DEF InHand
  <1>5. pc[c] \notin {"empty", "unlink", "free"} => element[c] = NoMessage
    BY DEF Good, LayoutInv, ClaimRight
  <1>6. /\ pc[c] = "key" => key[s] # INVALID_BLOCK_BASE
        /\ pc[c] \in {"value", "move"} => s = SlotAt(i)
    BY DEF Good, LayoutInv, ClaimRight
  <1>7. NoMessage \in Nat
    BY DEF NoMessage
  <1> HIDE DEF i, s, f
  <1> DEFINE Frame ==
        /\ InHand(c)' /\ headIndex' = headIndex /\ i < headIndex /\ f.index = i
        /\ f = found'[c] /\ key' = key /\ value' = value /\ Linked' = Linked
        /\ \A d \in Consumers \ {c} : InHand(d)' => i # found'[d].index
  <1>8. Frame
    BY <1>1, <1>2, <1>3, <1>4 DEF f
  <1> HIDE DEF Frame
  <1>9. CASE LoadIndexTail(c)
    <2>1. pc[c] = "slot" /\ pc'[c] = "key" /\ f.entry = indexTail /\ element' = element
      BY <1>0, <1>9 DEF LoadIndexTail, Goto, FoundType, f
    <2>2. key[indexTail] # INVALID_BLOCK_BASE
      <3>1. tailIndex > 0
        BY <1>0, <1>1, InHandFacts DEF TypeOK, i
      <3> QED
        BY <1>2, <3>1, TailHasKey
    <2> QED
      BY <1>5, <1>7, <1>8, <2>1, <2>2 DEF ClaimRight, Frame
  <1>10. CASE LookUpSlot(c)
    <2>1. pc[c] = "key" /\ pc'[c] = "value" /\ f.entry = SlotOf(i, s, key[s])
          /\ element' = element
      BY <1>0, <1>10 DEF LookUpSlot, Goto, FoundType, f, i, s
    <2>2. key[s] \in Nat /\ Cell(key[s]) = 0 /\ SlotAt(key[s]) = s
      BY <1>0, <1>2, <1>6, <2>1, Basics DEF RingRight
    <2>3. f.entry = SlotAt(i)
      BY <1>0, <2>1, <2>2, SlotFound
    <2> QED
      BY <1>5, <1>7, <1>8, <2>1, <2>3 DEF ClaimRight, Frame, SlotAt
  <1>11. CASE LoadBlock(c)
    <2>1. pc[c] = "value" /\ pc'[c] = "move" /\ f.entry = s /\ f.block = value[s]
          /\ element' = element
      BY <1>0, <1>11 DEF LoadBlock, Goto, FoundType, f, s
    <2>2. s = SlotAt(i) /\ s \in Linked
      BY <1>2, <1>6, <2>1
    <2> QED
      BY <1>5, <1>7, <1>8, <2>1, <2>2 DEF ClaimRight, Frame, SlotAt
  <1>12. CASE MoveElement(c)
    <2>1. pc[c] = "move" /\ pc'[c] = "empty" /\ f = found[c] /\ s = f.entry /\ s \in Linked
          /\ s = SlotAt(i) /\ element'[c] = i + 1
      BY <1>12, MovesTheRightOne DEF f, i, s
    <2>2. found[c].block = value[s]
      BY <2>1 DEF Good, LayoutInv, ClaimRight, s
    <2>3. i \in Nat
      BY <1>0
    <2> QED
      BY <1>8, <2>1, <2>2, <2>3 DEF ClaimRight, Frame, SlotAt
  <1> QED
    BY <1>9, <1>10, <1>11, <1>12

LEMMA ClaimBySetEmpty ==
    ASSUME Good, NEW c \in Consumers, SetEmpty(c)
    PROVE  ClaimRight(c)' /\ element'[c] \in Nat
  <1> DEFINE i == found[c].index
             s == found[c].entry
             E == {j \in InBlock(key[s]) : IsEmptied(j)}
  <1>0. /\ TypeOK /\ element \in [Consumers -> Nat] /\ Consumer(c)
        /\ pc[c] = "empty" /\ InHand(c) /\ UNCHANGED <<headIndex, value>>
    BY SetEmptyDoes DEF Good, LayoutInv, Consumer
  <1>1. /\ s = SlotAt(i) /\ s \in Linked /\ key[s] = Base(i)
        /\ i \in InBlock(key[s])
        /\ {j \in InBlock(key[s]) : IsEmptied(j)'} = E \cup {i}
        /\ \/ pc'[c] = "unlink" /\ found' = found /\ element' = element
              /\ E \cup {i} = InBlock(key[s])
           \/ pc'[c] = "idle" /\ element'[c] = NoMessage
    BY SetEmptyCounts
  <1>2. /\ found[c].block = value[s] /\ element[c] = i + 1 /\ i < headIndex
    BY <1>0 DEF Good, LayoutInv, ClaimRight
  <1>3. /\ key' = key /\ Linked' = Linked
        /\ \A d \in Consumers \ {c} : pc'[d] = pc[d]
    BY <1>0, ProducerStays DEF Linked
  <1>4. ~IsEmptied(i)
    BY <1>0, HandIndex
  <1>5. ASSUME NEW d \in Consumers \ {c}, pc[d] = "unlink" PROVE found[d].entry # s
    <2>1. \A j \in InBlock(key[found[d].entry]) : IsEmptied(j)
      BY <1>5 DEF Good, LayoutInv, ClaimRight
    <2> QED
      BY <1>1, <1>4, <2>1
  <1>6. CASE pc'[c] = "idle"
    BY <1>1, <1>6, NothingInHand DEF Early, NoMessage
  <1>7. CASE pc'[c] = "unlink"
    <2> HIDE DEF i, s, E
    <2>1. /\ found' = found /\ element' = element /\ E \cup {i} = InBlock(key[s])
      BY <1>1, <1>7
    <2>2. \A j \in InBlock(key[s]) : IsEmptied(j)'
      BY <1>1, <2>1
    <2>3. found'[c].index = i /\ found'[c].entry = s /\ found'[c].block = value[s]
      BY <1>2, <2>1 DEF i, s
    <2>4. element'[c] = i + 1 /\ element'[c] \in Nat
      BY <1>0, <1>2, <2>1
    <2>5. ~InHand(c)'
      BY <1>7 DEF InHand
    <2>6. \A d \in Consumers \ {c} : pc'[d] = "unlink" => found'[d].entry # s
      BY <1>3, <1>5, <2>1
    <2> QED
      BY <1>0, <1>1, <1>2, <1>3, <1>7, <2>2, <2>3, <2>4, <2>5, <2>6
         DEF ClaimRight, InBlock, SlotAt, Base
  <1> QED
    BY <1>1, <1>6, <1>7

LEMMA ClaimByUnlink ==
    ASSUME Good, NEW c \in Consumers, UnlinkBlock(c)
    PROVE  ClaimRight(c)' /\ element'[c] \in Nat
  <1>0. /\ TypeOK /\ element \in [Consumers -> Nat] /\ Consumer(c)
    BY DEF Good, LayoutInv, Consumer
  <1>1. /\ pc[c] = "unlink" /\ pc'[c] = "free" /\ found' = found /\ element' = element
        /\ found[c].entry \in Linked
        /\ found[c].block = value[found[c].entry] /\ found[c].block \in Blocks
    BY UnlinkDoes
  <1>2. element[c] = found[c].index + 1 /\ found[c].index < headIndex
    BY <1>1 DEF Good, LayoutInv, ClaimRight
  <1>3. headIndex' = headIndex /\ ~InHand(c)'
    BY LastSteps
  <1>4. ASSUME NEW d \in Consumers \ {c}, pc'[d] = "free"
        PROVE  found'[d].block # found[c].block
    <2>1. pc[d] = "free" /\ found'[d] = found[d]
      BY <1>0, <1>4, ProducerStays
    <2>2. found[d].block \in Released
      BY <2>1 DEF Released
    <2>3. found[c].block \in InRing
      BY <1>1 DEF InRing
    <2>4. found[c].block \notin Released
      BY <1>1, <2>3 DEF Good, LayoutInv, PlacesRight
    <2> QED
      BY <2>1, <2>2, <2>4
  <1>5. pc'[c] \notin {"key", "value", "move", "empty", "unlink"}
    BY <1>1
  <1> QED
    BY <1>0, <1>1, <1>2, <1>3, <1>4, <1>5 DEF ClaimRight

LEMMA StepClaims ==
    ASSUME Good, TypeOK', Next
    PROVE  element' \in [Consumers -> Nat] /\ \A c \in Consumers : ClaimRight(c)'
  <1>0. NoConsumer => element' \in [Consumers -> Nat]
    BY ConsumersStay DEF Good, LayoutInv
  <1>1. ASSUME NEW c \in Consumers, Consumer(c)
        PROVE  ClaimRight(c)' /\ element'[c] \in Nat
    <2>0. /\ element \in [Consumers -> Nat] /\ pc \in [Consumers -> ConsumerSteps] /\ TypeOK
      BY DEF Good, LayoutInv, TypeOK
    <2>1. CASE LoadTail(c) \/ LoadOvercommit(c) \/ CheckAvailable(c) \/ TakeTicket(c)
                 \/ Recheck(c) \/ GiveUp(c)
      <3>1. pc[c] \in Early /\ pc'[c] \in Early /\ element'[c] \in {element[c], NoMessage}
        BY <2>0, <2>1, EarlySteps
      <3>2. element[c] = NoMessage
        BY <3>1 DEF Early, Good, LayoutInv, ClaimRight
      <3> QED
        BY <3>1, <3>2, NothingInHand DEF NoMessage
    <2>2. CASE Claim(c)
      BY <2>2, ClaimByClaim DEF NoMessage
    <2>3. CASE LoadIndexTail(c) \/ LookUpSlot(c) \/ LoadBlock(c) \/ MoveElement(c)
      BY <2>3, ClaimByHand
    <2>4. CASE SetEmpty(c)
      BY <2>4, ClaimBySetEmpty
    <2>5. CASE UnlinkBlock(c)
      BY <2>5, ClaimByUnlink
    <2>6. CASE FreeBlock(c)
      <3>1. pc'[c] = "idle" /\ element'[c] = NoMessage
        BY <2>0, <2>6 DEF FreeBlock, Goto, Return
      <3> QED
        BY <3>1, NothingInHand DEF Early, NoMessage
    <2> QED
      BY <1>1, <2>1, <2>2, <2>3, <2>4, <2>5, <2>6 DEF Consumer
  <1>2. ASSUME NEW c \in Consumers, Consumer(c) PROVE element' \in [Consumers -> Nat]
    <2>0. element \in [Consumers -> Nat] /\ TypeOK
      BY DEF Good, LayoutInv
    <2>1. element' = element \/ \E x : element' = [element EXCEPT ![c] = x]
      <3>1. CASE LoadTail(c) \/ LoadOvercommit(c) \/ TakeTicket(c) \/ Claim(c)
                   \/ LoadIndexTail(c) \/ LookUpSlot(c) \/ LoadBlock(c)
        BY <3>1 DEF LoadTail, LoadOvercommit, TakeTicket, Claim, LoadIndexTail, LookUpSlot,
           LoadBlock
      <3>2. CASE CheckAvailable(c)
        BY <3>2 DEF CheckAvailable, Keep, Return
      <3>3. CASE Recheck(c) \/ UnlinkBlock(c)
        BY <3>3 DEF Recheck, UnlinkBlock, Keep
      <3>4. CASE GiveUp(c) \/ FreeBlock(c)
        BY <3>4 DEF GiveUp, FreeBlock, Return
      <3>5. CASE MoveElement(c)
        BY <3>5 DEF MoveElement
      <3>6. CASE SetEmpty(c)
        BY <3>6 DEF SetEmpty, Keep, Return
      <3> QED
        BY <1>2, <3>1, <3>2, <3>3, <3>4, <3>5, <3>6 DEF Consumer
    <2>2. element'[c] \in Nat
      BY <1>1, <1>2
    <2> QED
      BY <2>0, <2>1, <2>2
  <1>3. ASSUME NEW c \in Consumers, Consumer(c), NEW d \in Consumers PROVE ClaimRight(d)'
    BY <1>1, <1>3, ClaimsOfOthers
  <1>4. CASE NoConsumer
    BY <1>0, <1>2, <1>4, ClaimsByOthers
  <1> QED
    BY <1>2, <1>3, <1>4 DEF Next, NoConsumer

-----------------------------------------------------------------------------
(* What the blocks contain *)

\* Each cell of a linked block is that of one index.
LEMMA OneCell ==
    ASSUME TypeOK, RingRight, NEW i \in Nat, NEW s \in Linked, NEW j \in Cells,
           key[SlotAt(i)] + Cell(i) = i
    PROVE  key[s] + j \in Nat /\ (key[s] + j = i <=> s = SlotAt(i) /\ j = Cell(i))
  <1>0. j \in 0 .. BlockSize - 1 /\ BlockSize \in Nat /\ Cell(i) \in 0 .. BlockSize - 1
    BY SizeAssumption, IndexParts DEF Cells
  <1>1. key[s] \in Nat
    BY LinkedIndex
  <1>2. ASSUME key[s] + j = i PROVE s = SlotAt(i)
    <2>1. i \in InBlock(key[s])
      BY <1>0, <1>1, <1>2 DEF InBlock
    <2> QED
      BY <2>1, LinkedIndex
  <1> QED
    BY <1>0, <1>1, <1>2

\* Steps that change neither what is linked nor what is stored.
LEMMA ContentsFrame ==
    ASSUME Good, elements' = elements, Linked' = Linked,
           \A s \in Linked : value'[s] = value[s] /\ key'[s] = key[s],
           \A b \in InRing :
              elementsCompletelyDequeued'[b] = elementsCompletelyDequeued[b],
           \A i \in Nat : (IsEmptied(i)' <=> IsEmptied(i)) /\ (Stored(i)' <=> Stored(i))
    PROVE  ContentsRight'
  <1>1. \A s \in Linked : key[s] \in Nat
    BY Basics DEF Linked, Good
  <1>2. ASSUME NEW s \in Linked
        PROVE  /\ elementsCompletelyDequeued'[value'[s]]
                     = Cardinality({i \in InBlock(key[s]) : IsEmptied(i)})'
               /\ \A j \in Cells : elements'[value'[s]][j] =
                     IF Stored(key[s] + j)' THEN key'[s] + j + 1 ELSE NoMessage
    <2>1. /\ elementsCompletelyDequeued[value[s]]
                = Cardinality({i \in InBlock(key[s]) : IsEmptied(i)})
          /\ \A j \in Cells : elements[value[s]][j] =
                IF Stored(key[s] + j) THEN key[s] + j + 1 ELSE NoMessage
      BY DEF Good, LayoutInv, ContentsRight
    <2>2. value[s] \in InRing
      BY DEF InRing
    <2>3. \A i \in InBlock(key[s]) : i \in Nat
      BY <1>1, SizeAssumption DEF InBlock
    <2>4. {i \in InBlock(key[s]) : IsEmptied(i)'} = {i \in InBlock(key[s]) : IsEmptied(i)}
      BY <2>3
    <2>5. \A j \in Cells : key[s] + j \in Nat
      BY <1>1, SizeAssumption DEF Cells
    <2> QED
      BY <2>1, <2>2, <2>4, <2>5
  <1>3. InRing' = InRing
    BY DEF InRing
  <1>4. \A b \in Blocks \ InRing : \A j \in Cells : elements'[b][j] = NoMessage
    BY DEF Good, LayoutInv, ContentsRight
  <1> QED
    BY <1>2, <1>3, <1>4 DEF ContentsRight, InBlock, Cells

\* Steps that change one cell of one block, that of the only index to change.
LEMMA ContentsOfCell ==
    ASSUME Good, RingRight, UNCHANGED <<key, value, elementsCompletelyDequeued>>,
           NEW i \in Nat, i < Reserved, ~IsEmptied(i),
           NEW n, elements' = [elements EXCEPT ![value[SlotAt(i)]][Cell(i)] = n],
           n = (IF Stored(i)' THEN i + 1 ELSE NoMessage),
           \A k \in Nat : IsEmptied(k)' <=> IsEmptied(k),
           \A k \in Nat : k # i => (Stored(k)' <=> Stored(k))
    PROVE  ContentsRight'
  <1> DEFINE h == SlotAt(i)
  <1>0. /\ TypeOK /\ elements \in [Blocks -> [Cells -> Nat]]
        /\ h \in Linked /\ key[h] + Cell(i) = i /\ Cell(i) \in Cells
        /\ value[h] \in Blocks
    BY LiveIndex, IndexParts DEF Good, TypeOK, Linked
  <1>1. \A s \in Linked : value[s] = value[h] => s = h
    BY <1>0 DEF Good, LayoutInv, PlacesRight
  <1>2. ASSUME NEW s \in Linked
        PROVE  elementsCompletelyDequeued[value[s]]
                     = Cardinality({k \in InBlock(key[s]) : IsEmptied(k)'})
    <2>1. key[s] \in Nat
      BY <1>0, LinkedIndex
    <2>2. \A k \in InBlock(key[s]) : k \in Nat
      BY <2>1, SizeAssumption DEF InBlock
    <2>3. {k \in InBlock(key[s]) : IsEmptied(k)'} = {k \in InBlock(key[s]) : IsEmptied(k)}
      BY <2>2
    <2> QED
      BY <2>3 DEF Good, LayoutInv, ContentsRight
  <1>3. ASSUME NEW s \in Linked, NEW j \in Cells
        PROVE  elements'[value[s]][j] =
                     IF Stored(key[s] + j)' THEN key[s] + j + 1 ELSE NoMessage
    <2>1. key[s] + j \in Nat /\ (key[s] + j = i <=> s = h /\ j = Cell(i))
      BY <1>0, OneCell
    <2>2. value[s] \in Blocks
      BY DEF Linked
    <2>3. CASE s = h /\ j = Cell(i)
      <3>1. elements'[value[h]][Cell(i)] = n
        BY <1>0
      <3> QED
        BY <2>1, <2>3, <3>1
    <2>4. CASE ~(s = h /\ j = Cell(i))
      <3>1. elements'[value[s]][j] = elements[value[s]][j]
        BY <1>0, <1>1, <2>2, <2>4
      <3>2. elements[value[s]][j] = IF Stored(key[s] + j) THEN key[s] + j + 1 ELSE NoMessage
        BY DEF Good, LayoutInv, ContentsRight
      <3> QED
        BY <2>1, <2>4, <3>1, <3>2
    <2> QED
      BY <2>3, <2>4
  <1>4. Linked' = Linked /\ InRing' = InRing
    BY DEF Linked, InRing
  <1>5. ASSUME NEW b \in Blocks \ InRing, NEW j \in Cells PROVE elements'[b][j] = NoMessage
    <2>1. b # value[h]
      BY <1>0 DEF InRing
    <2>2. elements'[b][j] = elements[b][j]
      BY <1>0, <2>1
    <2> QED
      BY <2>2 DEF Good, LayoutInv, ContentsRight
  <1> QED
    BY <1>2, <1>3, <1>4, <1>5 DEF ContentsRight, InBlock, Cells

LEMMA ContentsPublish ==
    ASSUME Good, TypeOK', PublishBlock PROVE ContentsRight'
  <1>a. PICK T, h : T = tailIndex /\ h = SlotAt(tailIndex)
    OBVIOUS
  <1>0. /\ TypeOK /\ T \in Nat /\ headIndex \in Nat /\ headIndex <= T
        /\ BlockSize \in Nat /\ NoConsumer /\ ~WriteElement /\ RingRight
    BY <1>a, Basics DEF Good, HeadNeverPassesTail, NoConsumer, Producer, PublishBlock, WriteElement,
       LayoutInv
  <1>1. /\ ppc = "publish" /\ UNCHANGED <<key, elements, elementsCompletelyDequeued>>
        /\ ppc' = "write" /\ tailIndex' = T
    BY <1>a DEF PublishBlock, contents, counters
  <1>2. /\ h \notin Linked /\ Linked' = Linked \cup {h}
        /\ \A s \in Linked : value'[s] = value[s]
        /\ value'[h] = newBlock /\ newBlock \in Blocks /\ key[h] = T
    BY <1>a, <1>0, RingPublish
  <1>3. /\ \A i \in Nat : IsEmptied(i)' <=> IsEmptied(i)
        /\ \A i \in Nat : Stored(i)' <=> Stored(i)
    BY <1>0, ConsumersStay, StoredByOthers
  <1>4. \A i \in InBlock(T) : ~IsEmptied(i)' /\ ~Stored(i)
    <2>1. \A i \in InBlock(T) : i \in Nat /\ i >= T
      BY <1>0 DEF InBlock
    <2>2. \A i \in Nat : i >= T => ~IsEmptied(i) /\ ~Stored(i)
      BY <1>a, <1>0, <1>1 DEF IsEmptied, Stored
    <2> QED
      BY <1>3, <2>1, <2>2
  <1>5. newBlock \notin InRing /\ elementsCompletelyDequeued[newBlock] = 0
    <2>1. newBlock # Null
      BY <1>2, PointerAssumption
    <2> QED
      BY <1>1, <2>1, NewBlockApart DEF Good, LayoutInv, EnqueueRight
  <1>6. Cardinality({i \in InBlock(T) : IsEmptied(i)'}) = 0
    <2>1. {i \in InBlock(T) : IsEmptied(i)'} = {}
      BY <1>4
    <2> QED
      BY <2>1, FS_EmptySet
  <1>7. \A j \in Cells : elements[newBlock][j] = NoMessage
    BY <1>2, <1>5 DEF Good, LayoutInv, ContentsRight
  <1>8. \A j \in Cells : ~Stored(key[h] + j)'
    <2>1. \A j \in Cells : T + j \in InBlock(T) /\ T + j \in Nat
      BY <1>0 DEF InBlock, Cells
    <2> QED
      BY <1>1, <1>2, <1>3, <1>4, <2>1
  <1>9. ASSUME NEW s \in Linked
        PROVE  /\ elementsCompletelyDequeued[value[s]]
                     = Cardinality({i \in InBlock(key[s]) : IsEmptied(i)'})
               /\ \A j \in Cells : elements[value[s]][j] =
                     IF Stored(key[s] + j)' THEN key[s] + j + 1 ELSE NoMessage
    <2>1. key[s] \in Nat
      BY <1>0, LinkedIndex
    <2>2. (\A i \in InBlock(key[s]) : i \in Nat) /\ \A j \in Cells : key[s] + j \in Nat
      BY <1>0, <2>1 DEF InBlock, Cells
    <2>3. {i \in InBlock(key[s]) : IsEmptied(i)'} = {i \in InBlock(key[s]) : IsEmptied(i)}
      BY <1>3, <2>2
    <2> QED
      BY <1>1, <1>3, <2>2, <2>3 DEF Good, LayoutInv, ContentsRight
  <1>10. ASSUME NEW b \in Blocks \ InRing' PROVE b \in Blocks \ InRing
    BY <1>2 DEF InRing
  <1>11. \A b \in Blocks \ InRing' : \A j \in Cells : elements[b][j] = NoMessage
    BY <1>10 DEF Good, LayoutInv, ContentsRight
  <1>12. ASSUME NEW s \in Linked'
         PROVE  /\ elementsCompletelyDequeued'[value'[s]]
                      = Cardinality({i \in InBlock(key[s]) : IsEmptied(i)})'
                /\ \A j \in Cells : elements'[value'[s]][j] =
                      IF Stored(key[s] + j)' THEN key'[s] + j + 1 ELSE NoMessage
    <2>1. CASE s = h
      <3>1. {i \in InBlock(key[s]) : IsEmptied(i)}' = {i \in InBlock(T) : IsEmptied(i)'}
        BY <1>1, <1>2, <2>1 DEF InBlock
      <3> QED
        BY <1>1, <1>2, <1>5, <1>6, <1>7, <1>8, <2>1, <3>1
    <2>2. CASE s \in Linked
      <3>1. {i \in InBlock(key[s]) : IsEmptied(i)}' = {i \in InBlock(key[s]) : IsEmptied(i)'}
        BY <1>1 DEF InBlock
      <3>2. value'[s] = value[s]
        BY <1>2, <2>2
      <3> QED
        BY <1>1, <1>9, <2>2, <3>1, <3>2
    <2> QED
      BY <1>2, <2>1, <2>2
  <1> QED
    BY <1>1, <1>11, <1>12 DEF ContentsRight, Cells

LEMMA ContentsWrite ==
    ASSUME Good, TypeOK', WriteElement PROVE ContentsRight'
  <1>a. PICK T : T = tailIndex
    OBVIOUS
  <1>0. /\ TypeOK /\ T \in Nat /\ headIndex \in Nat /\ headIndex <= T
        /\ BlockSize \in Nat /\ Cell(T) \in 0 .. BlockSize - 1 /\ Base(T) \in Nat
        /\ T = Base(T) + Cell(T) /\ NoConsumer
    BY <1>a, Basics DEF Good, HeadNeverPassesTail, NoConsumer, Producer, Cells
  <1>1. /\ ppc = "write" /\ UNCHANGED <<key, value, elementsCompletelyDequeued>>
        /\ elements' = [elements EXCEPT ![tailBlock][Cell(T)] = T + 1]
        /\ ppc' = "commit" /\ tailIndex' = T /\ headIndex' = headIndex
    BY <1>a DEF WriteElement, blockIndex, counters
  <1>2. RingRight /\ Reserved = Base(T) + BlockSize
    BY <1>a, <1>1 DEF Good, LayoutInv, Reserved
  <1>3. ~IsEmptied(T) /\ T < Reserved /\ T >= Reserved - BlockSize
    BY <1>0, <1>2 DEF IsEmptied
  <1>4. tailBlock = value[SlotAt(T)]
    <2>1. Reserved \in Nat
      BY <1>0, <1>2
    <2>2. T \in 0 .. Reserved - 1
      BY <1>0, <1>3, <2>1
    <2> QED
      BY <1>2, <1>3, <2>2 DEF RingRight
  <1>5. Stored(T)'
    BY <1>0, <1>1 DEF Stored
  <1>6. /\ \A k \in Nat : IsEmptied(k)' <=> IsEmptied(k)
        /\ \A k \in Nat : k # T => (Stored(k)' <=> Stored(k))
    BY <1>a, <1>0, ConsumersStay, StoredByOthers
  <1>7. T + 1 = (IF Stored(T)' THEN T + 1 ELSE NoMessage)
    BY <1>5
  <1> QED
    BY <1>0, <1>1, <1>2, <1>3, <1>4, <1>6, <1>7, ContentsOfCell

LEMMA ContentsMove ==
    ASSUME Good, NEW c \in Consumers, MoveElement(c) PROVE ContentsRight'
  <1>a. PICK i : i = found[c].index
    OBVIOUS
  <1>0. /\ TypeOK /\ Consumer(c) /\ ~SetEmpty(c) /\ element \in [Consumers -> Nat]
        /\ InHand(c)
    BY SetEmptyDoes, MovesTheRightOne DEF Good, LayoutInv, Consumer, InHand
  <1>1. /\ i \in Nat /\ found[c].entry = SlotAt(i)
        /\ elements' = [elements EXCEPT ![value[SlotAt(i)]][Cell(i)] = NoMessage]
    BY <1>a, MovesTheRightOne
  <1>2. RingRight /\ i < Reserved /\ ~IsEmptied(i)
    BY <1>a, <1>0, HandIndex
  <1>3. UNCHANGED <<key, value, elementsCompletelyDequeued>>
    BY <1>0, ProducerStays, HandSteps
  <1>4. \A k \in Nat : IsEmptied(k)' <=> IsEmptied(k)
    BY <1>0, EmptiedKept
  <1>5. \A k \in Nat : Stored(k)' <=> Stored(k) /\ k # i
    BY <1>a, StoredByMove
  <1>6. NoMessage = IF Stored(i)' THEN i + 1 ELSE NoMessage
    BY <1>1, <1>5
  <1> QED
    BY <1>1, <1>2, <1>3, <1>4, <1>5, <1>6, ContentsOfCell

LEMMA ContentsSetEmpty ==
    ASSUME Good, NEW c \in Consumers, SetEmpty(c) PROVE ContentsRight'
  <1>a. PICK i, h : i = found[c].index /\ h = found[c].entry
    OBVIOUS
  <1>b. PICK E : E = {j \in InBlock(key[h]) : IsEmptied(j)}
    OBVIOUS
  <1>0. /\ TypeOK /\ Consumer(c) /\ ~MoveElement(c) /\ element \in [Consumers -> Nat]
        /\ InHand(c) /\ elementsCompletelyDequeued \in [Blocks -> Nat]
    BY SetEmptyDoes DEF Good, LayoutInv, Consumer, MoveElement, Goto, TypeOK
  <1>1. /\ h = SlotAt(i) /\ h \in Linked /\ i \in Nat
        /\ elementsCompletelyDequeued' =
              [elementsCompletelyDequeued EXCEPT ![value[h]] = Cardinality(E) + 1]
        /\ {j \in InBlock(key[h]) : IsEmptied(j)'} = E \cup {i}
        /\ Cardinality(E \cup {i}) = Cardinality(E) + 1
    BY <1>a, <1>b, SetEmptyCounts
  <1>2. /\ RingRight /\ UNCHANGED <<key, value, elements>>
        /\ Linked' = Linked /\ InRing' = InRing
    BY <1>0, ProducerStays, SetEmptyDoes, HandIndex DEF Linked, InRing
  <1>3. value[h] \in Blocks /\ \A s \in Linked : value[s] \in Blocks
    BY <1>1 DEF Linked
  <1>4. /\ \A k \in Nat : IsEmptied(k)' <=> IsEmptied(k) \/ k = i
        /\ \A k \in Nat : Stored(k)' <=> Stored(k)
    BY <1>a, <1>0, EmptiedBySet, StoredKept
  <1>5. ASSUME NEW s \in Linked
        PROVE  elementsCompletelyDequeued'[value[s]]
                     = Cardinality({j \in InBlock(key[s]) : IsEmptied(j)'})
    <2>1. CASE s = h
      BY <1>0, <1>1, <1>3, <2>1
    <2>2. CASE s # h
      <3>1. value[s] # value[h]
        BY <1>1, <2>2 DEF Good, LayoutInv, PlacesRight
      <3>2. elementsCompletelyDequeued'[value[s]] = elementsCompletelyDequeued[value[s]]
        BY <1>0, <1>1, <1>3, <3>1
      <3>3. key[s] \in Nat /\ i \notin InBlock(key[s])
        BY <1>0, <1>1, <1>2, <2>2, LinkedIndex
      <3>4. \A j \in InBlock(key[s]) : j \in Nat
        BY <3>3, SizeAssumption DEF InBlock
      <3>5. {j \in InBlock(key[s]) : IsEmptied(j)'} = {j \in InBlock(key[s]) : IsEmptied(j)}
        BY <1>4, <3>3, <3>4
      <3> QED
        BY <3>2, <3>5 DEF Good, LayoutInv, ContentsRight
    <2> QED
      BY <2>1, <2>2
  <1>6. ASSUME NEW s \in Linked, NEW j \in Cells
        PROVE  elements[value[s]][j] =
                     IF Stored(key[s] + j)' THEN key[s] + j + 1 ELSE NoMessage
    <2>1. key[s] \in Nat
      BY <1>0, <1>2, LinkedIndex, ZeroIsBase
    <2>2. key[s] + j \in Nat
      BY <2>1, SizeAssumption DEF Cells
    <2> QED
      BY <1>2, <1>4, <2>2 DEF Good, LayoutInv, ContentsRight
  <1>7. \A b \in Blocks \ InRing : \A j \in Cells : elements[b][j] = NoMessage
    BY DEF Good, LayoutInv, ContentsRight
  <1> QED
    BY <1>2, <1>5, <1>6, <1>7 DEF ContentsRight, InBlock, Cells

\* A block leaves the ring with no element in it.
LEMMA ContentsUnlink ==
    ASSUME Good, NEW c \in Consumers, UnlinkBlock(c) PROVE ContentsRight'
  <1>a. PICK h : h = found[c].entry
    OBVIOUS
  <1>0. /\ TypeOK /\ Consumer(c) /\ element \in [Consumers -> Nat] /\ headIndex \in Nat
        /\ ~MoveElement(c) /\ ~SetEmpty(c)
    BY Basics, UnlinkDoes, SetEmptyDoes DEF Good, LayoutInv, Consumer, MoveElement, Goto
  <1>1. /\ h \in Linked /\ value[h] \in Blocks
        /\ \A j \in InBlock(key[h]) : IsEmptied(j)
        /\ \A r \in Slots \ {h} : value'[r] = value[r]
        /\ Linked' = Linked \ {h}
        /\ UNCHANGED <<elements, elementsCompletelyDequeued>> /\ pc[c] = "unlink"
    BY <1>a, UnlinkDoes
  <1>2. key' = key /\ RingRight
    BY <1>0, <1>1, ProducerStays, NotDestroyed
  <1>3. /\ \A k \in Nat : IsEmptied(k)' <=> IsEmptied(k)
        /\ \A k \in Nat : Stored(k)' <=> Stored(k)
    BY <1>0, EmptiedKept, StoredKept
  <1>4. ASSUME NEW s \in Linked'
        PROVE  /\ value'[s] = value[s]
               /\ elementsCompletelyDequeued[value[s]]
                     = Cardinality({j \in InBlock(key[s]) : IsEmptied(j)'})
               /\ \A j \in Cells : elements[value[s]][j] =
                     IF Stored(key[s] + j)' THEN key[s] + j + 1 ELSE NoMessage
    <2>1. s \in Linked /\ value'[s] = value[s]
      BY <1>1 DEF Linked
    <2>2. key[s] \in Nat
      BY <1>0, <1>2, <2>1, LinkedIndex, ZeroIsBase
    <2>3. (\A j \in InBlock(key[s]) : j \in Nat) /\ \A j \in Cells : key[s] + j \in Nat
      BY <2>2, SizeAssumption DEF InBlock, Cells
    <2>4. {j \in InBlock(key[s]) : IsEmptied(j)'} = {j \in InBlock(key[s]) : IsEmptied(j)}
      BY <1>3, <2>3
    <2> QED
      BY <1>2, <1>3, <2>1, <2>3, <2>4 DEF Good, LayoutInv, ContentsRight
  <1>5. \A j \in Cells : elements[value[h]][j] = NoMessage
    <2>1. key[h] \in Nat
      BY <1>0, <1>1, <1>2, LinkedIndex, ZeroIsBase
    <2>2. ASSUME NEW j \in Cells PROVE ~Stored(key[h] + j)
      <3>1. key[h] + j \in InBlock(key[h])
        BY <2>1, SizeAssumption DEF InBlock, Cells
      <3>2. IsEmptied(key[h] + j) /\ key[h] + j \in Nat
        BY <1>1, <2>1, <3>1 DEF Cells
      <3>3. ~(key[h] + j >= headIndex)
        BY <1>0, <3>2 DEF IsEmptied
      <3> QED
        BY <3>2, <3>3 DEF IsEmptied, Stored, InHand
    <2> QED
      BY <1>1, <2>2 DEF Good, LayoutInv, ContentsRight
  <1>6. ASSUME NEW b \in Blocks \ InRing', NEW j \in Cells PROVE elements[b][j] = NoMessage
    <2>1. CASE b = value[h]
      BY <1>5, <2>1
    <2>2. CASE b # value[h]
      <3>1. b \notin InRing
        BY <1>1, <1>4, <2>2 DEF InRing
      <3> QED
        BY <3>1 DEF Good, LayoutInv, ContentsRight
    <2> QED
      BY <2>1, <2>2
  <1> QED
    BY <1>1, <1>2, <1>4, <1>6 DEF ContentsRight, InBlock, Cells

-----------------------------------------------------------------------------
(* The destructor *)

\* Where it finds the waiting elements.
LEMMA WaitingIndex ==
    ASSUME Good, RingRight, NEW i \in Waiting
    PROVE  /\ i \in Nat /\ i < tailIndex /\ i < Reserved /\ i >= headIndex /\ ~IsEmptied(i)
           /\ BlockAt(i) = value[SlotAt(i)] /\ SlotAt(i) \in Linked
           /\ key[SlotAt(i)] = Base(i) /\ key[SlotAt(i)] + Cell(i) = i
  <1>1. /\ tailIndex \in Nat /\ headIndex \in Nat /\ Reserved \in Nat
        /\ tailIndex <= Reserved
    BY Basics DEF Good
  <1>2. i \in Nat /\ i < tailIndex /\ i < Reserved /\ i >= headIndex /\ tailIndex > 0
    BY <1>1 DEF Waiting
  <1>3. ~IsEmptied(i)
    BY <1>1, <1>2 DEF IsEmptied
  <1>4. BlockAt(i) = value[SlotAt(i)]
    <2>1. key[indexTail] \in Nat /\ Cell(key[indexTail]) = 0 /\ SlotAt(key[indexTail]) = indexTail
      BY <1>2, TailHasKey
    <2>2. SlotOf(i, indexTail, key[indexTail]) = SlotAt(i)
      BY <1>2, <2>1, SlotFound
    <2> QED
      BY <2>2 DEF BlockAt
  <1> QED
    BY <1>2, <1>3, <1>4, LiveIndex

\* The tail block, once everybody has returned, is that of the last index, or the one
\* partly used.
LEMMA TailBlock ==
    ASSUME Good, RingRight, ppc = "idle"
    PROVE  /\ Waiting # {} => tailIndex - 1 \in Waiting /\ tailBlock = value[SlotAt(tailIndex - 1)]
           /\ Cell(tailIndex) # 0 =>
                 /\ tailBlock = value[SlotAt(tailIndex)] /\ SlotAt(tailIndex) \in Linked
                 /\ ~IsEmptied(tailIndex)
  <1>a. PICK T : T = tailIndex
    OBVIOUS
  <1>1. /\ T \in Nat /\ headIndex \in Nat /\ Reserved \in Nat /\ BlockSize \in Nat
        /\ BlockSize > 1 /\ headIndex <= T /\ Base(T) \in Nat /\ Cell(T) \in 0 .. BlockSize - 1
        /\ T = Base(T) + Cell(T)
    BY <1>a, Basics DEF Good, HeadNeverPassesTail, Cells
  <1>2. Reserved = IF Cell(T) # 0 THEN Base(T) + BlockSize ELSE T
    BY <1>a DEF Reserved
  <1>3. ASSUME Waiting # {} PROVE T - 1 \in Waiting /\ tailBlock = value[SlotAt(T - 1)]
    <2>1. T - 1 \in Waiting
      BY <1>a, <1>1, <1>3 DEF Waiting
    <2>2. T - 1 \in Nat /\ ~IsEmptied(T - 1) /\ T - 1 < Reserved
      BY <2>1, WaitingIndex
    <2>3. T - 1 \in 0 .. Reserved - 1 /\ T - 1 >= Reserved - BlockSize
      BY <1>1, <1>2, <2>2
    <2> QED
      BY <2>1, <2>2, <2>3 DEF RingRight
  <1>4. ASSUME Cell(T) # 0
        PROVE  tailBlock = value[SlotAt(T)] /\ SlotAt(T) \in Linked /\ ~IsEmptied(T)
    <2>1. ~IsEmptied(T)
      BY <1>1 DEF IsEmptied
    <2>2. T \in 0 .. Reserved - 1 /\ T >= Reserved - BlockSize
      BY <1>1, <1>2, <1>4
    <2> QED
      BY <2>1, <2>2 DEF RingRight
  <1> QED
    BY <1>a, <1>3, <1>4

LEMMA DestructorRight == ASSUME Good PROVE DestructorIsExact
  <1> SUFFICES ASSUME AllReturned
               PROVE  /\ Doomed = {p \in Blocks \X Cells : elements[p[1]][p[2]] # NoMessage}
                      /\ FreedByLoop \cap FreedAfterLoop = {}
                      /\ FreedByLoop \cup FreedAfterLoop = {value[s] : s \in Slots} \cap Blocks
    BY DEF DestructorIsExact
  <1>a. PICK T : T = tailIndex
    OBVIOUS
  <1>0. /\ TypeOK /\ T \in Nat /\ headIndex \in Nat /\ headIndex <= T
        /\ BlockSize \in Nat /\ BlockSize > 1 /\ Reserved \in Nat
        /\ ppc = "idle" /\ RingRight /\ \A c \in Consumers : pc[c] = "idle"
    BY <1>a, Basics DEF Good, HeadNeverPassesTail, AllReturned, LayoutInv
  <1>1. \A i \in Nat : Stored(i) <=> i \in Waiting
    BY <1>a, <1>0 DEF Stored, Waiting
  <1>2. \A i \in Nat : IsEmptied(i) <=> i < headIndex
    BY <1>0 DEF IsEmptied, InHand
  <1>3. ASSUME NEW i \in Waiting
        PROVE  /\ BlockAt(i) \in Blocks /\ Cell(i) \in Cells
               /\ elements[BlockAt(i)][Cell(i)] # NoMessage
    <2>1. /\ i \in Nat /\ BlockAt(i) = value[SlotAt(i)] /\ SlotAt(i) \in Linked
          /\ key[SlotAt(i)] + Cell(i) = i
      BY <1>0, WaitingIndex
    <2>2. Cell(i) \in Cells /\ value[SlotAt(i)] \in Blocks /\ Stored(i)
      BY <1>1, <2>1, IndexParts DEF Linked
    <2>3. elements[value[SlotAt(i)]][Cell(i)] = i + 1
      BY <2>1, <2>2 DEF Good, LayoutInv, ContentsRight
    <2>4. i + 1 # 0
      BY <2>1
    <2> QED
      BY <2>1, <2>2, <2>3, <2>4 DEF NoMessage
  <1>4. ASSUME NEW b \in Blocks, NEW j \in Cells, elements[b][j] # NoMessage
        PROVE  \E i \in Waiting : BlockAt(i) = b /\ Cell(i) = j
    <2>1. PICK s \in Linked : b = value[s]
      BY <1>4 DEF Good, LayoutInv, ContentsRight, InRing
    <2>2. Stored(key[s] + j)
      BY <1>4, <2>1 DEF Good, LayoutInv, ContentsRight
    <2>3. key[s] \in Nat
      BY <1>0, LinkedIndex, ZeroIsBase
    <2>4. PICK i : i = key[s] + j /\ i \in Nat
      BY <1>0, <2>3 DEF Cells
    <2>5. i \in Waiting
      BY <1>1, <2>2, <2>4
    <2>6. BlockAt(i) = value[SlotAt(i)] /\ key[SlotAt(i)] + Cell(i) = i
      BY <1>0, <2>5, WaitingIndex
    <2>7. s = SlotAt(i) /\ j = Cell(i)
      BY <1>0, <2>4, <2>6, OneCell
    <2> QED
      BY <2>1, <2>5, <2>6, <2>7
  <1>5. Doomed = {p \in Blocks \X Cells : elements[p[1]][p[2]] # NoMessage}
    BY <1>3, <1>4 DEF Doomed
  <1>6. /\ Waiting # {} => T - 1 \in Waiting /\ tailBlock = value[SlotAt(T - 1)]
        /\ Cell(T) # 0 => /\ tailBlock = value[SlotAt(T)] /\ SlotAt(T) \in Linked
    BY <1>a, <1>0, TailBlock
  <1>7. FreedByLoop \cap FreedAfterLoop = {}
    <2> SUFFICES ASSUME NEW i \in Waiting, Base(i) < Base(T - 1), BlockAt(i) = tailBlock
                 PROVE  FALSE
      BY <1>a DEF FreedByLoop, FreedAfterLoop
    <2>1. BlockAt(i) = value[SlotAt(i)] /\ SlotAt(i) \in Linked /\ key[SlotAt(i)] = Base(i)
          /\ i \in Nat
      BY <1>0, WaitingIndex
    <2>2. T - 1 \in Waiting /\ tailBlock = value[SlotAt(T - 1)]
      BY <1>6
    <2>3. SlotAt(T - 1) \in Linked /\ key[SlotAt(T - 1)] = Base(T - 1) /\ T - 1 \in Nat
      BY <1>0, <2>2, WaitingIndex
    <2>4. SlotAt(i) = SlotAt(T - 1)
      BY <2>1, <2>2, <2>3 DEF Good, LayoutInv, PlacesRight
    <2>5. Base(i) \in Nat
      BY <2>1, IndexParts
    <2> QED
      BY <2>1, <2>3, <2>4, <2>5
  <1>8. FreedByLoop \cup FreedAfterLoop \subseteq InRing
    <2>1. ASSUME NEW i \in Waiting PROVE BlockAt(i) \in InRing
      BY <1>0, WaitingIndex DEF InRing
    <2>2. Waiting # {} => tailBlock \in InRing
      BY <1>0, <1>6, WaitingIndex DEF InRing
    <2>3. Cell(T) # 0 => tailBlock \in InRing
      BY <1>6 DEF InRing
    <2> QED
      BY <1>a, <2>1, <2>2, <2>3 DEF FreedByLoop, FreedAfterLoop
  <1>9. ASSUME NEW s \in Linked PROVE value[s] \in FreedByLoop \cup FreedAfterLoop
    <2>1. /\ key[s] \in Nat /\ key[s] <= T /\ key[s] < Reserved /\ Cell(key[s]) = 0
          /\ SlotAt(key[s]) = s
      BY <1>a, <1>0, LinkedIndex, ZeroIsBase
    <2>2. PICK k \in InBlock(key[s]) : ~IsEmptied(k)
      BY <1>0 DEF RingRight
    <2>3. k \in Nat /\ k >= headIndex /\ k >= key[s] /\ k < key[s] + BlockSize
      BY <1>0, <1>2, <2>1, <2>2 DEF InBlock
    <2>4. Base(k) = key[s] /\ SlotAt(k) = s /\ value[s] \in Blocks
      BY <1>0, <2>2, <2>3, LinkedIndex DEF Linked
    <2>5. CASE k < T
      <3>1. k \in Waiting
        BY <1>a, <1>0, <2>3, <2>5 DEF Waiting
      <3>2. BlockAt(k) = value[s] /\ T - 1 \in Waiting
        BY <1>0, <1>6, <2>4, <3>1, WaitingIndex
      <3>3. T - 1 \in Nat /\ Base(T - 1) \in Nat /\ Cell(T - 1) \in 0 .. BlockSize - 1
            /\ T - 1 = Base(T - 1) + Cell(T - 1) /\ Cell(Base(T - 1)) = 0
        BY <1>0, <3>2, WaitingIndex, IndexParts DEF Cells
      <3>4. CASE Base(k) < Base(T - 1)
        BY <1>a, <3>1, <3>2, <3>4 DEF FreedByLoop
      <3>5. CASE ~(Base(k) < Base(T - 1))
        <4>1. T - 1 \in InBlock(key[s])
          BY <1>0, <2>1, <2>3, <2>4, <2>5, <3>3, <3>5 DEF InBlock
        <4>2. SlotAt(T - 1) = s
          BY <1>0, <3>3, <4>1, LinkedIndex
        <4>3. tailBlock = value[s] /\ tailBlock # Null
          BY <1>6, <2>4, <3>1, <4>2, PointerAssumption
        <4> QED
          BY <3>1, <4>3 DEF FreedAfterLoop
      <3> QED
        BY <3>4, <3>5
    <2>6. CASE ~(k < T)
      <3>1. T \in InBlock(key[s])
        BY <1>0, <2>1, <2>3, <2>6 DEF InBlock
      <3>2. Base(T) = key[s] /\ SlotAt(T) = s
        BY <1>0, <3>1, LinkedIndex
      <3>3. Cell(T) # 0
        <4>1. Cell(T) = 0 => Reserved = T /\ Base(T) = T
          BY <1>a, <1>0, IndexParts DEF Reserved
        <4> QED
          BY <1>0, <2>1, <3>2, <4>1
      <3>4. tailBlock = value[s] /\ tailBlock # Null
        BY <1>6, <2>4, <3>2, <3>3, PointerAssumption
      <3> QED
        BY <1>a, <3>3, <3>4 DEF FreedAfterLoop
    <2> QED
      BY <2>5, <2>6
  <1>10. InRing = {value[s] : s \in Slots} \cap Blocks
    BY DEF InRing, Linked
  <1>11. InRing \subseteq FreedByLoop \cup FreedAfterLoop
    BY <1>9 DEF InRing
  <1> QED
    BY <1>5, <1>7, <1>8, <1>10, <1>11

LEMMA ContentsDestroy ==
    ASSUME Good, Destroy PROVE ContentsRight' /\ Linked' = {}
  <1>1. Linked' = {}
    BY PointerAssumption DEF Destroy, Linked
  <1>2. /\ AllReturned
        /\ elements' = [b \in Blocks |-> [i \in Cells |->
              IF <<b, i>> \in Doomed THEN NoMessage ELSE elements[b][i]]]
    BY DEF Destroy
  <1>3. Doomed = {p \in Blocks \X Cells : elements[p[1]][p[2]] # NoMessage}
    BY <1>2, DestructorRight DEF DestructorIsExact
  <1>4. ASSUME NEW b \in Blocks, NEW j \in Cells PROVE elements'[b][j] = NoMessage
    BY <1>2, <1>3
  <1> QED
    BY <1>1, <1>4 DEF ContentsRight, Cells

LEMMA StepContents ==
    ASSUME Good, TypeOK', Next PROVE ContentsRight'
  <1>1. CASE PublishBlock
    BY <1>1, ContentsPublish
  <1>2. CASE WriteElement
    BY <1>2, ContentsWrite
  <1>3. CASE Destroy
    BY <1>3, ContentsDestroy
  <1>4. CASE NoConsumer /\ ~PublishBlock /\ ~WriteElement /\ ~Destroy
    <2>1. elements' = elements
      <3> USE DEF contents, vars
      <3>1. CASE Producer
        BY <1>4, <3>1 DEF Producer, EnqueueStart, CheckRoom, InsertKey, InsertRefused,
           AdvanceIndex, Requisition, RequisitionFails, RewindIndex, ClearEntry, ResetEmpty,
           Commit
      <3>2. ASSUME NEW b \in Blocks, Settle(b) \/ OtherTakes(b) \/ OtherReturns(b)
            PROVE  elements' = elements
        BY <3>2 DEF Settle, OtherTakes, OtherReturns
      <3>3. CASE UNCHANGED vars
        BY <3>3
      <3> QED
        BY <1>4, <3>1, <3>2, <3>3 DEF NoConsumer
    <2>2. ASSUME NEW b \in InRing
          PROVE  elementsCompletelyDequeued'[b] = elementsCompletelyDequeued[b]
      <3>0. b \in Blocks /\ elementsCompletelyDequeued \in [Blocks -> Nat]
        BY DEF InRing, Linked, Good, TypeOK
      <3>1. b # newBlock /\ b \notin other
        BY <3>0 DEF Good, LayoutInv, PlacesRight
      <3>2. CASE ResetEmpty
        BY <3>0, <3>1, <3>2 DEF ResetEmpty
      <3>3. ASSUME NEW d \in Blocks, OtherReturns(d)
            PROVE  elementsCompletelyDequeued'[b] = elementsCompletelyDequeued[b]
        BY <3>0, <3>1, <3>3 DEF OtherReturns
      <3>4. CASE Producer /\ ~ResetEmpty
        BY <1>4, <3>4 DEF Producer, EnqueueStart, CheckRoom, InsertKey, InsertRefused,
           AdvanceIndex, Requisition, RequisitionFails, RewindIndex, ClearEntry,
           Commit, contents
      <3>5. ASSUME NEW d \in Blocks, Settle(d) \/ OtherTakes(d)
            PROVE  elementsCompletelyDequeued' = elementsCompletelyDequeued
        BY <3>5 DEF Settle, OtherTakes, contents
      <3>6. CASE UNCHANGED vars
        BY <3>6 DEF vars, contents
      <3> QED
        BY <1>4, <3>2, <3>3, <3>4, <3>5, <3>6 DEF NoConsumer
    <2>3. \A i \in Nat : (IsEmptied(i)' <=> IsEmptied(i)) /\ (Stored(i)' <=> Stored(i))
      BY <1>4, ConsumersStay, StoredByOthers
    <2> QED
      BY <1>4, <2>1, <2>2, <2>3, LinkedKept, ContentsFrame
  <1>5. ASSUME NEW c \in Consumers, Consumer(c) PROVE ContentsRight'
    <2>0. /\ TypeOK /\ element \in [Consumers -> Nat]
      BY DEF Good, LayoutInv
    <2>1. CASE MoveElement(c)
      BY <2>1, ContentsMove
    <2>2. CASE SetEmpty(c)
      BY <2>2, ContentsSetEmpty
    <2>3. CASE UnlinkBlock(c)
      BY <2>3, ContentsUnlink
    <2>4. CASE ~MoveElement(c) /\ ~SetEmpty(c) /\ ~UnlinkBlock(c)
      <3>1. UNCHANGED <<value, elements, elementsCompletelyDequeued>>
        <4>1. CASE LoadTail(c) \/ LoadOvercommit(c) \/ CheckAvailable(c) \/ TakeTicket(c)
                     \/ Recheck(c) \/ GiveUp(c)
          BY <2>0, <4>1, EarlySteps
        <4>2. CASE Claim(c)
          BY <4>2, ClaimDoes
        <4>3. CASE LoadIndexTail(c) \/ LookUpSlot(c) \/ LoadBlock(c)
          BY <2>4, <4>3, HandSteps
        <4>4. CASE FreeBlock(c)
          BY <4>4 DEF FreeBlock, blockIndex, contents
        <4> QED
          BY <1>5, <2>4, <4>1, <4>2, <4>3, <4>4 DEF Consumer
      <3>2. key' = key /\ Linked' = Linked
        BY <1>5, <2>0, <3>1, ProducerStays DEF Linked
      <3>3. \A i \in Nat : (IsEmptied(i)' <=> IsEmptied(i)) /\ (Stored(i)' <=> Stored(i))
        BY <1>5, <2>4, EmptiedKept, StoredKept
      <3> QED
        BY <3>1, <3>2, <3>3, ContentsFrame
    <2> QED
      BY <2>1, <2>2, <2>3, <2>4
  <1> QED
    BY <1>1, <1>2, <1>3, <1>4, <1>5 DEF Next, NoConsumer

-----------------------------------------------------------------------------
(* Where the blocks are *)

\* The blocks not seen by a step stay where they are, the others move by one place.
LEMMA PlacesFrame ==
    ASSUME Good, UNCHANGED <<pool, freeing, other, newBlock>>, InRing' = InRing,
           Linked' = Linked, \A s \in Linked : value'[s] = value[s],
           Released' = Released
    PROVE  PlacesRight'
  BY DEF Good, LayoutInv, PlacesRight

LEMMA ReleasedKept ==
    ASSUME TypeOK, element \in [Consumers -> Nat], NEW c \in Consumers, Consumer(c),
           pc[c] # "free", pc'[c] # "free"
    PROVE  Released' = Released
  <1>1. \A d \in Consumers \ {c} : pc'[d] = pc[d] /\ found'[d] = found[d]
    BY ProducerStays
  <1>2. {d \in Consumers : pc'[d] = "free"} = {d \in Consumers : pc[d] = "free"}
    BY <1>1
  <1>3. \A d \in Consumers : pc[d] = "free" => found'[d] = found[d]
    BY <1>1
  <1> QED
    BY <1>2, <1>3 DEF Released

LEMMA PlacesByConsumer ==
    ASSUME Good, NEW c \in Consumers, Consumer(c) PROVE PlacesRight'
  <1>0. /\ TypeOK /\ element \in [Consumers -> Nat] /\ PlacesRight
    BY DEF Good, LayoutInv
  <1>1. /\ UNCHANGED <<pool, other, newBlock>>
        /\ \A d \in Consumers \ {c} : pc'[d] = pc[d] /\ found'[d] = found[d]
    BY <1>0, ProducerStays
  <1>2. CASE UnlinkBlock(c)
    <2>a. PICK h, b : h = found[c].entry /\ b = found[c].block
      OBVIOUS
    <2>1. /\ pc[c] = "unlink" /\ pc'[c] = "free" /\ found' = found
          /\ h \in Linked /\ b = value[h] /\ b \in Blocks
          /\ \A r \in Slots \ {h} : value'[r] = value[r]
          /\ Linked' = Linked \ {h} /\ freeing' = freeing
      BY <1>2, <2>a, UnlinkDoes
    <2>3. Released' = Released \cup {b}
      <3>1. ASSUME NEW x PROVE x \in Released' <=> x \in Released \/ x = b
        <4>1. x \in Released' <=> \E d \in Consumers : pc'[d] = "free" /\ found[d].block = x
          BY <2>1 DEF Released
        <4>2. x \in Released <=> \E d \in Consumers : pc[d] = "free" /\ found[d].block = x
          BY DEF Released
        <4>3. \A d \in Consumers : pc'[d] = "free" <=> pc[d] = "free" \/ d = c
          BY <1>1, <2>1
        <4> QED
          BY <2>a, <4>1, <4>2, <4>3
      <3> QED
        BY <3>1
    <2>4. \A s \in Linked' : s \in Linked /\ s # h /\ value'[s] = value[s]
      BY <2>1 DEF Linked
    <2>5. \A s, r \in Linked : value[s] = value[r] => s = r
      BY <1>0 DEF PlacesRight
    <2>6. InRing' = InRing \ {b}
      BY <2>1, <2>4, <2>5 DEF InRing
    <2>7. b \in InRing
      BY <2>1 DEF InRing
    <2>8. \A s, r \in Linked' : value'[s] = value'[r] => s = r
      BY <2>4, <2>5
    <2> QED
      BY <1>0, <1>1, <2>1, <2>3, <2>6, <2>7, <2>8 DEF PlacesRight
  <1>3. CASE FreeBlock(c)
    <2>a. PICK b : b = found[c].block
      OBVIOUS
    <2>1. /\ pc[c] = "free" /\ pc'[c] # "free" /\ freeing' = freeing \cup {b}
          /\ UNCHANGED value
      BY <1>0, <1>3, <2>a DEF FreeBlock, Goto, blockIndex, TypeOK
    <2>2. /\ b \in Blocks
          /\ \A d \in Consumers \ {c} : pc[d] = "free" => found[d].block # b
      BY <2>a, <2>1 DEF Good, LayoutInv, ClaimRight
    <2>3. {d \in Consumers : pc'[d] = "free"} = {d \in Consumers : pc[d] = "free"} \ {c}
      BY <1>1, <2>1
    <2>4. Released' = Released \ {b} /\ b \in Released
      BY <1>1, <2>a, <2>1, <2>2, <2>3 DEF Released
    <2>5. Linked' = Linked /\ InRing' = InRing
      BY <2>1 DEF Linked, InRing
    <2> QED
      BY <1>0, <1>1, <2>1, <2>2, <2>4, <2>5 DEF PlacesRight
  <1>4. CASE ~UnlinkBlock(c) /\ ~FreeBlock(c)
    <2>1. UNCHANGED <<value, freeing>> /\ pc[c] # "free" /\ pc'[c] # "free"
      <3>1. CASE LoadTail(c) \/ LoadOvercommit(c) \/ CheckAvailable(c) \/ TakeTicket(c)
                   \/ Recheck(c) \/ GiveUp(c)
        BY <1>0, <3>1, EarlySteps DEF Early
      <3>2. CASE Claim(c)
        BY <3>2, ClaimDoes
      <3>3. CASE LoadIndexTail(c) \/ LookUpSlot(c) \/ LoadBlock(c) \/ MoveElement(c)
        BY <3>3, HandSteps DEF InHand
      <3>4. CASE SetEmpty(c)
        BY <3>4, SetEmptyDoes, SetEmptyCounts
      <3> QED
        BY <1>4, <3>1, <3>2, <3>3, <3>4 DEF Consumer
    <2>2. Released' = Released
      BY <1>0, <2>1, ReleasedKept
    <2> QED
      BY <1>1, <2>1, <2>2, PlacesFrame DEF Linked, InRing
  <1> QED
    BY <1>2, <1>3, <1>4

LEMMA StepPlaces ==
    ASSUME Good, TypeOK', Next PROVE PlacesRight'
  <1>0. /\ TypeOK /\ PlacesRight /\ pool \subseteq Blocks /\ newBlock \in Blocks \cup {Null}
    BY DEF Good, LayoutInv, TypeOK
  <1>1. NoConsumer => Released' = Released
    BY ConsumersStay DEF Released
  <1>2. CASE Requisition
    <2>1. PICK b \in pool : /\ newBlock' = b /\ pool' = pool \ {b}
                            /\ UNCHANGED <<freeing, other, value>> /\ ppc = "requisition"
      BY <1>2 DEF Requisition, blockIndex
    <2>2. newBlock = Null
      BY <2>1 DEF Good, LayoutInv, EnqueueRight
    <2>3. Linked' = Linked /\ InRing' = InRing /\ Released' = Released
      BY <1>1, <1>2, <2>1 DEF Linked, InRing, NoConsumer, Producer
    <2> QED
      BY <1>0, <2>1, <2>2, <2>3, PointerAssumption DEF PlacesRight
  <1>3. CASE PublishBlock
    <2>a. PICK h, b : h = SlotAt(tailIndex) /\ b = newBlock
      OBVIOUS
    <2>1. /\ newBlock' = Null /\ UNCHANGED <<pool, freeing, other>> /\ Released' = Released
          /\ RingRight
      BY <1>1, <1>3 DEF PublishBlock, places, NoConsumer, Producer, Good, LayoutInv
    <2>2. /\ h \notin Linked /\ Linked' = Linked \cup {h}
          /\ \A s \in Linked : value'[s] = value[s]
          /\ value'[h] = b /\ b \in Blocks
      BY <1>3, <2>a, <2>1, RingPublish
    <2>3. InRing' = InRing \cup {b}
      BY <2>2 DEF InRing
    <2>4. b \notin pool \cup freeing \cup other \cup InRing \cup Released
      BY <2>a, <2>2, NewBlockApart, PointerAssumption
    <2>5. \A s \in Linked : value[s] # b
      BY <2>4 DEF InRing
    <2>6. \A s, r \in Linked' : value'[s] = value'[r] => s = r
      BY <1>0, <2>2, <2>5 DEF PlacesRight
    <2> QED
      BY <1>0, <2>a, <2>1, <2>2, <2>3, <2>4, <2>6, PointerAssumption DEF PlacesRight
  <1>4. CASE Producer /\ ~Requisition /\ ~PublishBlock
    <2>1. UNCHANGED <<pool, freeing, other, newBlock>> /\ ~Destroy
      BY <1>4 DEF Producer, EnqueueStart, CheckRoom, InsertKey, InsertRefused, AdvanceIndex,
         RequisitionFails, RewindIndex, ClearEntry, ResetEmpty, WriteElement, Commit, places,
         Destroy, AllReturned
    <2>2. NoConsumer
      BY <1>4 DEF NoConsumer
    <2>3. Linked' = Linked /\ \A s \in Linked : value'[s] = value[s]
      BY <1>4, <2>1, <2>2, LinkedKept
    <2> QED
      BY <1>1, <2>1, <2>2, <2>3, PlacesFrame DEF InRing
  <1>5. ASSUME NEW b \in Blocks, Settle(b) \/ OtherTakes(b) \/ OtherReturns(b)
        PROVE  PlacesRight'
    <2>1. UNCHANGED <<newBlock, value>> /\ Linked' = Linked /\ InRing' = InRing
          /\ Released' = Released
      BY <1>1, <1>5 DEF Settle, OtherTakes, OtherReturns, blockIndex, producer, Linked,
         InRing, NoConsumer
    <2>2. CASE Settle(b)
      BY <1>0, <2>1, <2>2 DEF Settle, PlacesRight
    <2>3. CASE OtherTakes(b)
      BY <1>0, <2>1, <2>3 DEF OtherTakes, PlacesRight
    <2>4. CASE OtherReturns(b)
      BY <1>0, <2>1, <2>4 DEF OtherReturns, PlacesRight
    <2> QED
      BY <1>5, <2>2, <2>3, <2>4
  <1>6. CASE Destroy
    <2>1. /\ UNCHANGED <<pool, other, newBlock>> /\ Linked' = {} /\ AllReturned
          /\ freeing' = freeing \cup FreedByLoop \cup FreedAfterLoop
          /\ Released' = Released
      BY <1>1, <1>6, ContentsDestroy DEF Destroy, NoConsumer
    <2>2. FreedByLoop \cup FreedAfterLoop = {value[s] : s \in Slots} \cap Blocks
      BY <2>1, DestructorRight DEF DestructorIsExact
    <2>3. freeing' = freeing \cup InRing
      BY <2>1, <2>2 DEF InRing, Linked
    <2>4. InRing' = {} /\ InRing \subseteq Blocks
      BY <2>1 DEF InRing, Linked
    <2> QED
      BY <1>0, <2>1, <2>3, <2>4 DEF PlacesRight
  <1> QED
    BY <1>2, <1>3, <1>4, <1>5, <1>6, PlacesByConsumer DEF Next

-----------------------------------------------------------------------------
(* The invariant *)

LEMMA InitLayout == ASSUME Init PROVE LayoutInv
  <1>0. /\ tailIndex = 0 /\ headIndex = 0 /\ indexTail = IndexCap - 1 /\ ppc = "idle"
        /\ key = [s \in Slots |-> INVALID_BLOCK_BASE] /\ newBlock = Null
        /\ pc = [c \in Consumers |-> "idle"] /\ element = [c \in Consumers |-> NoMessage]
        /\ elements = [b \in Blocks |-> [i \in Cells |-> NoMessage]]
        /\ value \in [Slots -> {Null, Garbage}]
        /\ pool = Blocks /\ freeing = {} /\ other = {}
    BY DEF Init
  <1>1. Linked = {} /\ InRing = {} /\ Released = {}
    BY <1>0, PointerAssumption DEF Linked, InRing, Released
  <1>2. RingRight
    <2>1. LastSlot = IndexCap - 1
      BY <1>0 DEF LastSlot
    <2>2. Reserved = 0
      BY <1>0, ZeroIsBase DEF Reserved
    <2>3. \A s \in Slots : key[s] = INVALID_BLOCK_BASE
      BY <1>0
    <2>4. 0 .. Reserved - 1 = {}
      BY <2>2
    <2> QED
      BY <1>0, <1>1, <2>1, <2>3, <2>4 DEF RingRight
  <1>3. EnqueueRight
    BY <1>0 DEF EnqueueRight
  <1>4. element \in [Consumers -> Nat] /\ \A c \in Consumers : ClaimRight(c)
    BY <1>0 DEF ClaimRight, InHand, NoMessage
  <1>5. ContentsRight
    BY <1>0, <1>1 DEF ContentsRight
  <1>6. PlacesRight
    BY <1>0, <1>1, PointerAssumption DEF PlacesRight
  <1> QED
    BY <1>0, <1>2, <1>3, <1>4, <1>5, <1>6 DEF LayoutInv

\* Nothing runs in a destroyed sub-queue, and nothing is linked.
LEMMA StepDestroyed ==
    ASSUME Good, Next, ppc' = "destroyed"
    PROVE  Linked' = {} /\ \A c \in Consumers : pc'[c] = "idle"
  <1>1. CASE Destroy
    BY <1>1, ContentsDestroy DEF Destroy, AllReturned, consumer
  <1>2. CASE ~Destroy
    <2>1. ppc = "destroyed"
      <3>1. ~Producer
        BY DEF Producer, EnqueueStart, CheckRoom, InsertKey, InsertRefused,
           AdvanceIndex, Requisition, RequisitionFails, RewindIndex, ClearEntry, ResetEmpty,
           PublishBlock, WriteElement, Commit
      <3>2. ASSUME NEW b \in Blocks, Settle(b) \/ OtherTakes(b) \/ OtherReturns(b)
            PROVE  ppc' = ppc
        BY <3>2 DEF Settle, OtherTakes, OtherReturns, producer
      <3>3. ASSUME NEW c \in Consumers, Consumer(c) PROVE ppc' = ppc
        BY <3>3, ProducerStays DEF Good, LayoutInv
      <3> QED
        BY <1>2, <3>1, <3>2, <3>3 DEF Next
    <2>2. Linked = {} /\ \A c \in Consumers : pc[c] = "idle"
      BY <2>1 DEF Good, LayoutInv
    <2>3. ASSUME NEW b \in Blocks, Settle(b) \/ OtherTakes(b) \/ OtherReturns(b)
          PROVE  UNCHANGED <<pc, value>>
      BY <2>3 DEF Settle, OtherTakes, OtherReturns, consumer, blockIndex
    <2>4. ASSUME NEW c \in Consumers, Consumer(c) PROVE FALSE
      <3>1. pc[c] = "idle"
        BY <2>2
      <3>2. LoadTail(c)
        BY <2>4, <3>1 DEF Consumer, LoadOvercommit, CheckAvailable, TakeTicket, Recheck, GiveUp,
           Claim, LoadIndexTail, LookUpSlot, LoadBlock, MoveElement, SetEmpty, UnlinkBlock,
           FreeBlock, Goto
      <3> QED
        BY <2>1, <3>2 DEF LoadTail
    <2>5. ~Producer
      BY <2>1 DEF Producer, EnqueueStart, CheckRoom, InsertKey, InsertRefused,
         AdvanceIndex, Requisition, RequisitionFails, RewindIndex, ClearEntry, ResetEmpty,
         PublishBlock, WriteElement, Commit
    <2> QED
      BY <1>2, <2>2, <2>3, <2>4, <2>5 DEF Next, Linked
  <1> QED
    BY <1>1, <1>2

LEMMA StutterLayout == ASSUME LayoutInv, UNCHANGED vars PROVE LayoutInv'
  <1>1. /\ UNCHANGED <<tailIndex, headIndex, tailBlock, indexTail, key, value, elements,
                       elementsCompletelyDequeued, pool, freeing, other>>
        /\ UNCHANGED <<ppc, newBlock, pc, found, element>>
    BY DEF vars, counters, blockIndex, contents, places, producer, consumer
  <1> USE <1>1
  <1>2. /\ \A i : (IsEmptied(i)' <=> IsEmptied(i)) /\ (Stored(i)' <=> Stored(i))
        /\ \A c \in Consumers : InHand(c)' <=> InHand(c)
    BY DEF IsEmptied, Stored, InHand
  <1>3. Linked' = Linked /\ InRing' = InRing /\ Released' = Released
    BY DEF Linked, InRing, Released
  <1>4. Reserved' = Reserved /\ LastSlot' = LastSlot
    BY DEF Reserved, LastSlot, SlotAt, Base, Cell
  <1>5. RingRight => RingRight'
    BY <1>2, <1>3, <1>4 DEF RingRight, SlotAt, InBlock, Base, Cell
  <1>6. EnqueueRight => EnqueueRight'
    BY <1>3 DEF EnqueueRight, SlotAt
  <1>7. ASSUME NEW c \in Consumers, ClaimRight(c) PROVE ClaimRight(c)'
    BY <1>2, <1>3, <1>7 DEF ClaimRight, SlotAt, InBlock, Base
  <1>8. ContentsRight => ContentsRight'
    BY <1>2, <1>3 DEF ContentsRight, InBlock, Cells
  <1>9. PlacesRight => PlacesRight'
    BY <1>3 DEF PlacesRight
  <1> QED
    BY <1>3, <1>5, <1>6, <1>7, <1>8, <1>9 DEF LayoutInv

LEMMA StepLayout == ASSUME Good, TypeOK', Next PROVE LayoutInv'
  BY StepRing, StepEnqueue, StepClaims, StepContents, StepPlaces, StepDestroyed
     DEF LayoutInv, Linked

\* The inductive invariant of the blocks: a slot keeps its block until each of its indices
\* is emptied, a consumer finds its element where it was put, a cell has what waits in it,
\* and every block is in one place.
THEOREM LayoutCorrect == Spec => []LayoutInv
  <1>1. Init => LayoutInv
    BY InitLayout
  <1>2. TypeOK /\ TypeOK' /\ RoomInv /\ HeadNeverPassesTail /\ LayoutInv /\ [Next]_vars
           => LayoutInv'
    BY StepLayout, StutterLayout DEF Good
  <1> QED
    BY <1>1, <1>2, TypeCorrect, RoomCorrect, ClaimsNeverPassTail, PTL DEF Spec

-----------------------------------------------------------------------------
(* What it implies *)

\* One and no more of a set.
LEMMA CountOne ==
    ASSUME NEW S PROVE /\ S = {} => Cardinality(S) = 0
                       /\ (\E x \in S : \A y \in S : y = x) => Cardinality(S) = 1
  <1>1. ASSUME NEW x \in S, \A y \in S : y = x PROVE Cardinality(S) = 1
    <2>1. S = {x}
      BY <1>1
    <2> QED
      BY <2>1, FS_Singleton
  <1> QED
    BY <1>1, FS_EmptySet

LEMMA PlacesCounted == ASSUME Good PROVE OnePlacePerBlock
  <1> DEFINE Tagged == {<<1, pool>>, <<2, freeing>>, <<3, other>>, <<4, {newBlock}>>}
  <1> SUFFICES ASSUME NEW b \in Blocks
               PROVE  Cardinality({p \in Tagged : b \in p[2]})
                      + Cardinality({s \in Slots : value[s] = b})
                      + Cardinality({c \in Consumers : pc[c] = "free" /\ found[c].block = b})
                      = 1
    BY DEF OnePlacePerBlock
  <1>a. PICK P, S, C :
           /\ P = {p \in Tagged : b \in p[2]}
           /\ S = {s \in Slots : value[s] = b}
           /\ C = {c \in Consumers : pc[c] = "free" /\ found[c].block = b}
    OBVIOUS
  <1>1. PlacesRight
    BY DEF Good, LayoutInv
  <1>2. b \notin InRing => Cardinality(S) = 0
    <2>1. ASSUME b \notin InRing PROVE S = {}
      BY <1>a, <2>1 DEF InRing, Linked
    <2> QED
      BY <2>1, CountOne
  <1>3. b \in InRing => Cardinality(S) = 1
    <2> SUFFICES ASSUME b \in InRing PROVE \E x \in S : \A y \in S : y = x
      BY CountOne
    <2>1. PICK x \in Linked : value[x] = b
      BY DEF InRing
    <2>2. x \in S /\ \A y \in S : y \in Linked /\ value[y] = b
      BY <1>a, <2>1 DEF Linked
    <2> QED
      BY <1>1, <2>1, <2>2 DEF PlacesRight
  <1>4. b \notin Released => Cardinality(C) = 0
    <2>1. ASSUME b \notin Released PROVE C = {}
      BY <1>a, <2>1 DEF Released
    <2> QED
      BY <2>1, CountOne
  <1>5. b \in Released => Cardinality(C) = 1
    <2> SUFFICES ASSUME b \in Released PROVE \E x \in C : \A y \in C : y = x
      BY CountOne
    <2>1. PICK c \in Consumers : pc[c] = "free" /\ found[c].block = b
      BY DEF Released
    <2>2. \A d \in Consumers \ {c} : pc[d] = "free" => found[d].block # b
      BY <2>1 DEF Good, LayoutInv, ClaimRight
    <2>3. c \in C /\ \A d \in C : d = c
      BY <1>a, <2>1, <2>2
    <2> QED
      BY <2>3
  <1> DEFINE Elsewhere == pool \cup freeing \cup other \cup {newBlock}
  <1>6. /\ b \notin Elsewhere => Cardinality(P) = 0
        /\ b \in Elsewhere /\ b \notin InRing \cup Released => Cardinality(P) = 1
    <2>0. \A p \in P : \/ p = <<1, pool>> /\ b \in pool
                       \/ p = <<2, freeing>> /\ b \in freeing
                       \/ p = <<3, other>> /\ b \in other
                       \/ p = <<4, {newBlock}>> /\ b = newBlock
      BY <1>a
    <2>1. b \notin Elsewhere => P = {}
      BY <2>0
    <2>2. ASSUME b \in Elsewhere PROVE  \E x \in P : \A y \in P : y = x
      <3>1. \/ b \in pool /\ b \notin freeing \cup other \cup {newBlock}
            \/ b \in freeing /\ b \notin pool \cup other \cup {newBlock}
            \/ b \in other /\ b \notin pool \cup freeing \cup {newBlock}
            \/ b = newBlock /\ b \notin pool \cup freeing \cup other
        BY <1>1, <2>2 DEF PlacesRight
      <3>2. CASE b \in pool /\ b \notin freeing \cup other \cup {newBlock}
        <4>1. <<1, pool>> \in P
          BY <1>a, <3>2
        <4> QED
          BY <2>0, <3>2, <4>1
      <3>3. CASE b \in freeing /\ b \notin pool \cup other \cup {newBlock}
        <4>1. <<2, freeing>> \in P
          BY <1>a, <3>3
        <4> QED
          BY <2>0, <3>3, <4>1
      <3>4. CASE b \in other /\ b \notin pool \cup freeing \cup {newBlock}
        <4>1. <<3, other>> \in P
          BY <1>a, <3>4
        <4> QED
          BY <2>0, <3>4, <4>1
      <3>5. CASE b = newBlock /\ b \notin pool \cup freeing \cup other
        <4>1. <<4, {newBlock}>> \in P
          BY <1>a, <3>5
        <4> QED
          BY <2>0, <3>5, <4>1
      <3> QED
        BY <3>1, <3>2, <3>3, <3>4, <3>5
    <2>3. /\ P = {} => Cardinality(P) = 0
          /\ (\E x \in P : \A y \in P : y = x) => Cardinality(P) = 1
      BY CountOne
    <2> HIDE DEF Elsewhere
    <2> QED
      BY <2>1, <2>2, <2>3
  <1>7. Cardinality(P) + Cardinality(S) + Cardinality(C) = 1
    <2>1. CASE b \in InRing
      <3>1. b \notin Elsewhere \cup Released
        BY <1>1, <2>1 DEF PlacesRight
      <3> QED
        BY <1>3, <1>4, <1>6, <2>1, <3>1
    <2>2. CASE b \in Released
      <3>1. b \notin Elsewhere \cup InRing
        BY <1>1, <2>2 DEF PlacesRight
      <3> QED
        BY <1>2, <1>5, <1>6, <2>2, <3>1
    <2>3. CASE b \notin InRing \cup Released
      <3>1. b \in Elsewhere
        BY <1>1, <2>3 DEF PlacesRight
      <3> QED
        BY <1>2, <1>4, <1>6, <2>3, <3>1
    <2> QED
      BY <2>1, <2>2, <2>3
  <1> QED
    BY <1>a, <1>7

\* With any number of blocks and consumers, a block is in exactly one place at any time:
\* none is shared or lost between the pool, the other producers, enqueue, the index and a
\* consumer about to give it back.
THEOREM BlocksInOnePlace == Spec => []OnePlacePerBlock
  <1>1. TypeOK /\ RoomInv /\ HeadNeverPassesTail /\ LayoutInv => OnePlacePerBlock
    BY PlacesCounted DEF Good
  <1> QED
    BY <1>1, TypeCorrect, RoomCorrect, ClaimsNeverPassTail, LayoutCorrect, PTL

\* Whenever ~ImplicitProducer may run it destroys the elements that wait, and no others,
\* each in its cell, and frees each block of the index once.
THEOREM DestructorCorrect == Spec => []DestructorIsExact
  <1>1. TypeOK /\ RoomInv /\ HeadNeverPassesTail /\ LayoutInv => DestructorIsExact
    BY DestructorRight DEF Good
  <1> QED
    BY <1>1, TypeCorrect, RoomCorrect, ClaimsNeverPassTail, LayoutCorrect, PTL

\* The cell of the next index is empty when the element is constructed in it.
LEMMA WritesEmptyCell ==
    ASSUME Good, WriteElement
    PROVE  tailBlock \in Blocks /\ elements[tailBlock][Cell(tailIndex)] = NoMessage
  <1>a. PICK T : T = tailIndex
    OBVIOUS
  <1>0. /\ TypeOK /\ T \in Nat /\ headIndex \in Nat /\ headIndex <= T
        /\ BlockSize \in Nat /\ Cell(T) \in 0 .. BlockSize - 1 /\ Base(T) \in Nat
        /\ T = Base(T) + Cell(T)
    BY <1>a, Basics DEF Good, HeadNeverPassesTail, Cells
  <1>1. ppc = "write"
    BY DEF WriteElement
  <1>2. RingRight /\ Reserved = Base(T) + BlockSize
    BY <1>a, <1>1 DEF Good, LayoutInv, Reserved
  <1>3. ~IsEmptied(T) /\ T < Reserved /\ T >= Reserved - BlockSize /\ Reserved \in Nat
    BY <1>0, <1>2 DEF IsEmptied
  <1>4. tailBlock = value[SlotAt(T)]
    BY <1>0, <1>2, <1>3 DEF RingRight
  <1>5. SlotAt(T) \in Linked /\ key[SlotAt(T)] + Cell(T) = T
    BY <1>0, <1>2, <1>3, LiveIndex
  <1>6. ~Stored(T)
    BY <1>a, <1>0, <1>1 DEF Stored
  <1>7. elements[value[SlotAt(T)]][Cell(T)] = NoMessage
    BY <1>0, <1>5, <1>6 DEF Good, LayoutInv, ContentsRight, Cells
  <1> QED
    BY <1>a, <1>4, <1>5, <1>7 DEF Linked

LEMMA StepOverwrites ==
    ASSUME Good, [Next]_vars, NEW b \in Blocks, NEW i \in Cells, elements[b][i] # NoMessage
    PROVE  elements'[b][i] \in {elements[b][i], NoMessage}
  <1>0. elements \in [Blocks -> [Cells -> Nat]] /\ TypeOK /\ element \in [Consumers -> Nat]
    BY DEF Good, LayoutInv, TypeOK
  <1>1. CASE WriteElement
    <2>1. elements' = [elements EXCEPT ![tailBlock][Cell(tailIndex)] = tailIndex + 1]
      BY <1>1 DEF WriteElement
    <2>2. ~(b = tailBlock /\ i = Cell(tailIndex))
      BY <1>1, WritesEmptyCell
    <2> QED
      BY <1>0, <2>1, <2>2
  <1>2. CASE Destroy
    BY <1>2 DEF Destroy
  <1>3. CASE Producer /\ ~WriteElement
    BY <1>3 DEF Producer, EnqueueStart, CheckRoom, InsertKey, InsertRefused, AdvanceIndex,
       Requisition, RequisitionFails, RewindIndex, ClearEntry, ResetEmpty, PublishBlock,
       Commit, contents
  <1>4. ASSUME NEW c \in Consumers, Consumer(c)
        PROVE  elements'[b][i] \in {elements[b][i], NoMessage}
    <2>1. CASE MoveElement(c)
      <3>1. PICK s, j : elements' = [elements EXCEPT ![value[s]][j] = NoMessage]
        BY <2>1, MovesTheRightOne
      <3> QED
        BY <1>0, <3>1
    <2>2. CASE ~MoveElement(c)
      BY <1>4, <2>2, ConsumerContents
    <2> QED
      BY <2>1, <2>2
  <1>5. ASSUME NEW d \in Blocks, Settle(d) \/ OtherTakes(d) \/ OtherReturns(d)
        PROVE  elements' = elements
    BY <1>5 DEF Settle, OtherTakes, OtherReturns, contents
  <1>6. CASE UNCHANGED vars
    BY <1>6 DEF vars, contents
  <1> QED
    BY <1>1, <1>2, <1>3, <1>4, <1>5, <1>6 DEF Next

\* No element is overwritten before it was moved out, however long a consumer stops
\* between its claim and the move, and however often blocks are used again meanwhile.
THEOREM ElementsKept == Spec => NeverOverwritten
  <1>1. TypeOK /\ RoomInv /\ HeadNeverPassesTail /\ LayoutInv /\ [Next]_vars
           => [\A b \in Blocks : \A i \in Cells :
                  elements[b][i] # NoMessage =>
                     elements'[b][i] \in {elements[b][i], NoMessage}]_vars
    BY StepOverwrites DEF Good
  <1> QED
    BY <1>1, TypeCorrect, RoomCorrect, ClaimsNeverPassTail, LayoutCorrect, PTL
       DEF Spec, NeverOverwritten

-----------------------------------------------------------------------------
(* The sub-queue as a bounded FIFO *)

\* The messages from the head to the tail.
Between(h, t) == [i \in 1 .. t - h |-> h + i]

LEMMA BetweenPut ==
    ASSUME NEW h \in Nat, NEW t \in Nat, h <= t
    PROVE  /\ Len(Between(h, t)) = t - h
           /\ Between(h, t + 1) = Between(h, t) \o [i \in 1 .. 1 |-> t + i]
  <1>1. t - h \in Nat
    OBVIOUS
  <1>2. Between(h, t) \in Seq(Nat) /\ Len(Between(h, t)) = t - h
    BY <1>1 DEF Between
  <1>3. [i \in 1 .. 1 |-> t + i] \in Seq(Nat) /\ Len([i \in 1 .. 1 |-> t + i]) = 1
    OBVIOUS
  <1>4. Between(h, t) \o [i \in 1 .. 1 |-> t + i] =
           [i \in 1 .. (t - h) + 1 |->
              IF i <= t - h THEN Between(h, t)[i] ELSE [j \in 1 .. 1 |-> t + j][i - (t - h)]]
    BY <1>2, <1>3
  <1>5. (t + 1) - h = (t - h) + 1
    OBVIOUS
  <1>6. ASSUME NEW i \in 1 .. (t - h) + 1
        PROVE  h + i = IF i <= t - h THEN Between(h, t)[i]
                                     ELSE [j \in 1 .. 1 |-> t + j][i - (t - h)]
    <2>1. CASE i <= t - h
      BY <2>1 DEF Between
    <2>2. CASE ~(i <= t - h)
      <3>1. i - (t - h) = 1 /\ h + i = t + 1
        BY <2>2
      <3> QED
        BY <2>2, <3>1
    <2> QED
      BY <2>1, <2>2
  <1> QED
    BY <1>2, <1>4, <1>5, <1>6 DEF Between

LEMMA BetweenTake ==
    ASSUME NEW h \in Nat, NEW t \in Nat, h < t
    PROVE  /\ SubSeq(Between(h, t), 1, 1) = <<h + 1>>
           /\ SubSeq(Between(h, t), 2, Len(Between(h, t))) = Between(h + 1, t)
  <1>1. t - h \in Nat /\ t - h >= 1 /\ t - (h + 1) = (t - h) - 1
    OBVIOUS
  <1>2. Between(h, t) \in Seq(Nat) /\ Len(Between(h, t)) = t - h
    BY <1>1 DEF Between
  <1>3. Between(h, t)[1] = h + 1
    BY <1>1 DEF Between
  <1>4. SubSeq(Between(h, t), 1, 1) = <<h + 1>>
    <2>1. SubSeq(Between(h, t), 1, 1) = [i \in 1 .. 1 |-> Between(h, t)[i]]
      BY <1>2
    <2>2. <<h + 1>> = [i \in 1 .. 1 |-> h + 1]
      OBVIOUS
    <2>3. \A i \in 1 .. 1 : Between(h, t)[i] = h + 1
      BY <1>3
    <2>4. [i \in 1 .. 1 |-> Between(h, t)[i]] = [i \in 1 .. 1 |-> h + 1]
      BY <2>3
    <2> QED
      BY <2>1, <2>2, <2>4
  <1>5. SubSeq(Between(h, t), 2, Len(Between(h, t))) = Between(h + 1, t)
    <2>1. SubSeq(Between(h, t), 2, t - h) =
             [i \in 1 .. (t - h) - 1 |-> Between(h, t)[i + 1]]
      BY <1>1, <1>2
    <2>2. \A i \in 1 .. (t - h) - 1 : Between(h, t)[i + 1] = (h + 1) + i
      BY <1>1 DEF Between
    <2> QED
      BY <1>1, <1>2, <2>1, <2>2 DEF Between
  <1> QED
    BY <1>4, <1>5

\* From its claim to its return a consumer holds the message of its index.
Carries(c) == pc[c] \in {"slot", "key", "value", "move", "empty", "unlink", "free"}

HeldRight ==
    \A c \in Consumers : Holds(c) = IF Carries(c) THEN <<found[c].index + 1>> ELSE <<>>

LEMMA HeldMessages == Good => HeldRight
  <1> SUFFICES ASSUME Good, NEW c \in Consumers
               PROVE  Holds(c) = IF Carries(c) THEN <<found[c].index + 1>> ELSE <<>>
    BY DEF HeldRight
  <1>1. /\ pc[c] \in {"empty", "unlink", "free"} => element[c] = found[c].index + 1
        /\ pc[c] \notin {"empty", "unlink", "free"} => element[c] = NoMessage
        /\ found[c].index \in Nat
    BY Basics DEF Good, LayoutInv, ClaimRight
  <1>2. CASE pc[c] \in {"slot", "key", "value", "move"}
    BY <1>1, <1>2 DEF Holds, Carries
  <1>3. CASE pc[c] \in {"empty", "unlink", "free"}
    <2>1. element[c] # NoMessage
      BY <1>1, <1>3 DEF NoMessage
    <2> QED
      BY <1>1, <1>3, <2>1 DEF Holds, Carries
  <1>4. CASE ~Carries(c)
    BY <1>1, <1>4 DEF Holds, Carries
  <1> QED
    BY <1>2, <1>3, <1>4 DEF Carries

\* What a step does to what the consumers hold.
LEMMA HoldsKept ==
    ASSUME Good, Good', NEW c \in Consumers,
           Carries(c)' <=> Carries(c), Carries(c) => found'[c].index = found[c].index
    PROVE  Holds(c)' = Holds(c)
  <1>1. Holds(c) = IF Carries(c) THEN <<found[c].index + 1>> ELSE <<>>
    BY HeldMessages DEF HeldRight
  <1>2. (Good => HeldRight)'
    BY HeldMessages, PTL
  <1>3. Holds(c)' = IF Carries(c)' THEN <<found'[c].index + 1>> ELSE <<>>
    BY <1>2 DEF HeldRight
  <1> QED
    BY <1>1, <1>3

LEMMA HoldsOfOthers ==
    ASSUME Good, Good', NEW c \in Consumers, Consumer(c)
    PROVE  /\ \A d \in Consumers \ {c} : Holds(d)' = Holds(d)
           /\ tailIndex' = tailIndex
  <1>1. /\ tailIndex' = tailIndex
        /\ \A d \in Consumers \ {c} : pc'[d] = pc[d] /\ found'[d] = found[d]
    BY ProducerStays DEF Good, LayoutInv
  <1>2. ASSUME NEW d \in Consumers \ {c} PROVE Holds(d)' = Holds(d)
    <2>1. (Carries(d)' <=> Carries(d)) /\ found'[d].index = found[d].index
      BY <1>1 DEF Carries
    <2> QED
      BY <2>1, HoldsKept
  <1> QED
    BY <1>1, <1>2

LEMMA HoldsByOthers ==
    ASSUME Good, Good', NoConsumer
    PROVE  /\ \A c \in Consumers : Holds(c)' = Holds(c)
           /\ headIndex' = headIndex
  <1>1. UNCHANGED <<headIndex, pc, found>>
    BY ConsumersStay
  <1>2. ASSUME NEW c \in Consumers PROVE Holds(c)' = Holds(c)
    <2>1. (Carries(c)' <=> Carries(c)) /\ found'[c].index = found[c].index
      BY <1>1 DEF Carries
    <2> QED
      BY <2>1, HoldsKept
  <1> QED
    BY <1>1, <1>2

\* What is held by whom, as the abstract specification sees it.
Queue == Between(headIndex, tailIndex)
Hand == [c \in Consumers |-> Holds(c)]

LEMMA FifoAtFirst == Init => AsFifo!Init
  <1> SUFFICES ASSUME Init PROVE AsFifo!Init
    OBVIOUS
  <1>1. /\ tailIndex = 0 /\ headIndex = 0
        /\ \A c \in Consumers : pc[c] = "idle" /\ element[c] = NoMessage
    BY DEF Init
  <1>2. [i \in 1 .. tailIndex - headIndex |-> headIndex + i] = <<>>
    BY <1>1
  <1>3. \A c \in Consumers : Holds(c) = <<>>
    BY <1>1 DEF Holds
  <1> QED
    BY <1>1, <1>2, <1>3 DEF AsFifo!Init

\* A committed element is accepted, and there was room for it.
LEMMA CommitPuts ==
    ASSUME Good, Good', Commit
    PROVE  AsFifo!Next
  <1>a. PICK h, t : h = headIndex /\ t = tailIndex
    OBVIOUS
  <1>0. /\ h \in Nat /\ t \in Nat /\ h <= t /\ BlockSize \in Nat /\ MaxSubqueue \in Nat
        /\ Cell(t) \in 0 .. BlockSize - 1 /\ NoConsumer
    BY <1>a, Basics, SizeAssumption
       DEF Good, HeadNeverPassesTail, NoConsumer, Producer, Cells
  <1>1. headIndex' = h /\ tailIndex' = t + 1 /\ ppc = "commit"
    BY <1>a DEF Commit
  <1>2. t - h <= MaxSubqueue - BlockSize + Cell(t)
    BY <1>a, <1>1 DEF Good, RoomInv
  <1>3. t - h < MaxSubqueue
    BY <1>0, <1>2
  <1>4. /\ Len(Between(h, t)) = t - h
        /\ Between(h, t + 1) = Between(h, t) \o [i \in 1 .. 1 |-> t + i]
    BY <1>0, BetweenPut
  <1>5. Hand' = Hand
    BY <1>0, HoldsByOthers DEF Hand
  <1>6. 1 \in 1 .. MaxSubqueue - Len(Between(h, t))
    BY <1>0, <1>3, <1>4
  <1>7. /\ [i \in 1 .. tailIndex - headIndex |-> headIndex + i] = Between(h, t)
        /\ [i \in 1 .. tailIndex - headIndex |-> headIndex + i]' = Between(h, t + 1)
    BY <1>a, <1>1 DEF Between
  <1>8. AsFifo!Put(1)
    BY <1>a, <1>1, <1>4, <1>5, <1>7 DEF AsFifo!Put, Hand
  <1> QED
    BY <1>6, <1>7, <1>8 DEF AsFifo!Next

\* A claim takes the oldest message.
LEMMA ClaimTakes ==
    ASSUME Good, Good', NEW c \in Consumers, Claim(c)
    PROVE  AsFifo!Next
  <1>a. PICK h, t : h = headIndex /\ t = tailIndex
    OBVIOUS
  <1>0. h \in Nat /\ t \in Nat /\ Consumer(c) /\ h + 1 \in Nat
    BY <1>a, Basics DEF Good, Consumer
  <1>1. /\ pc[c] = "claim" /\ pc'[c] = "slot" /\ found'[c].index = h /\ headIndex' = h + 1
    BY <1>a, ClaimDoes
  <1>2. tailIndex' = t /\ \A d \in Consumers \ {c} : Holds(d)' = Holds(d)
    BY <1>a, <1>0, HoldsOfOthers
  <1>3. h < t
    <2>1. headIndex' <= tailIndex'
      BY DEF Good, HeadNeverPassesTail
    <2> QED
      BY <1>0, <1>1, <1>2, <2>1
  <1>4. Holds(c) = <<>>
    BY <1>1, HeldMessages DEF Carries, HeldRight
  <1>5. (Good => HeldRight)'
    BY HeldMessages, PTL
  <1>6. Holds(c)' = <<h + 1>>
    BY <1>1, <1>5 DEF HeldRight, Carries
  <1>7. /\ SubSeq(Between(h, t), 1, 1) = <<h + 1>>
        /\ SubSeq(Between(h, t), 2, Len(Between(h, t))) = Between(h + 1, t)
        /\ Len(Between(h, t)) = t - h
    BY <1>0, <1>3, BetweenTake, BetweenPut
  <1>8. Hand' = [Hand EXCEPT ![c] = <<h + 1>>]
    BY <1>2, <1>6 DEF Hand
  <1>9. 1 \in 1 .. Len(Between(h, t))
    BY <1>0, <1>3, <1>7
  <1>10. /\ [i \in 1 .. tailIndex - headIndex |-> headIndex + i] = Between(h, t)
        /\ [i \in 1 .. tailIndex - headIndex |-> headIndex + i]' = Between(h + 1, t)
    BY <1>a, <1>1, <1>2 DEF Between
  <1>11. 1 + 1 = 2
    OBVIOUS
  <1>12. AsFifo!Take(c, 1)
    BY <1>a, <1>2, <1>4, <1>7, <1>8, <1>10, <1>11 DEF AsFifo!Take, Hand
  <1> QED
    BY <1>9, <1>10, <1>12 DEF AsFifo!Next

\* Leaving the last step of a dequeue returns with the message claimed.
LEMMA ReturnGives ==
    ASSUME Good, Good', NEW c \in Consumers, Consumer(c), Carries(c), ~Carries(c)',
           headIndex' = headIndex
    PROVE  AsFifo!Next
  <1>1. tailIndex' = tailIndex /\ \A d \in Consumers \ {c} : Holds(d)' = Holds(d)
    BY HoldsOfOthers
  <1>2. Holds(c) = <<found[c].index + 1>>
    BY HeldMessages DEF HeldRight
  <1>3. (Good => HeldRight)'
    BY HeldMessages, PTL
  <1>4. Holds(c)' = <<>>
    BY <1>3 DEF HeldRight
  <1>5. Holds(c) # <<>>
    BY <1>2
  <1>6. Hand' = [Hand EXCEPT ![c] = <<>>]
    BY <1>1, <1>4 DEF Hand
  <1>7. AsFifo!Return(c)
    BY <1>1, <1>5, <1>6 DEF AsFifo!Return, Hand
  <1> QED
    BY <1>7 DEF AsFifo!Next

\* Everything else is internal to the sub-queue.
LEMMA FifoSame ==
    ASSUME UNCHANGED <<tailIndex, headIndex>>, \A c \in Consumers : Holds(c)' = Holds(c)
    PROVE  UNCHANGED AsFifo!vars
  <1>1. Hand' = Hand
    BY DEF Hand
  <1> QED
    BY <1>1 DEF AsFifo!vars, Hand

LEMMA FifoStep ==
    ASSUME Good, Good', [Next]_vars
    PROVE  [AsFifo!Next]_AsFifo!vars
  <1>1. CASE Commit
    BY <1>1, CommitPuts
  <1>2. CASE NoConsumer /\ ~Commit
    <2>1. tailIndex' = tailIndex
      <3> USE DEF counters, vars
      <3>1. CASE Producer
        BY <1>2, <3>1 DEF Producer, EnqueueStart, CheckRoom, InsertKey, InsertRefused,
           AdvanceIndex, Requisition, RequisitionFails, RewindIndex, ClearEntry, ResetEmpty,
           PublishBlock, WriteElement
      <3>2. ASSUME NEW b \in Blocks, Settle(b) \/ OtherTakes(b) \/ OtherReturns(b)
            PROVE  tailIndex' = tailIndex
        BY <3>2 DEF Settle, OtherTakes, OtherReturns
      <3>3. CASE Destroy \/ UNCHANGED vars
        BY <3>3 DEF Destroy
      <3> QED
        BY <1>2, <3>1, <3>2, <3>3 DEF NoConsumer
    <2> QED
      BY <1>2, <2>1, HoldsByOthers, FifoSame
  <1>3. ASSUME NEW c \in Consumers, Consumer(c) PROVE [AsFifo!Next]_AsFifo!vars
    <2>0. TypeOK /\ element \in [Consumers -> Nat] /\ pc \in [Consumers -> ConsumerSteps]
      BY DEF Good, LayoutInv, TypeOK
    <2>1. CASE Claim(c)
      BY <2>1, ClaimTakes
    <2>2. CASE headIndex' = headIndex /\ (Carries(c)' <=> Carries(c))
                  /\ (Carries(c) => found'[c].index = found[c].index)
      <3>1. \A d \in Consumers : Holds(d)' = Holds(d)
        BY <1>3, <2>2, HoldsKept, HoldsOfOthers
      <3> QED
        BY <1>3, <2>2, <3>1, HoldsOfOthers, FifoSame
    <2>3. CASE headIndex' = headIndex /\ Carries(c) /\ ~Carries(c)'
      BY <1>3, <2>3, ReturnGives
    <2>4. CASE LoadTail(c) \/ LoadOvercommit(c) \/ CheckAvailable(c) \/ TakeTicket(c)
                 \/ Recheck(c) \/ GiveUp(c)
      <3>1. headIndex' = headIndex /\ ~Carries(c) /\ ~Carries(c)'
        BY <2>0, <2>4, EarlySteps DEF Early, Carries
      <3> QED
        BY <2>2, <3>1
    <2>5. CASE LoadIndexTail(c) \/ LookUpSlot(c) \/ LoadBlock(c) \/ MoveElement(c)
      <3>1. /\ headIndex' = headIndex /\ Carries(c) /\ Carries(c)'
            /\ found'[c].index = found[c].index
        BY <2>5, HandSteps DEF InHand, Carries
      <3> QED
        BY <2>2, <3>1
    <2>6. CASE SetEmpty(c)
      <3>1. headIndex' = headIndex /\ pc[c] = "empty"
        BY <2>6, SetEmptyDoes
      <3>2. (pc'[c] = "unlink" /\ found' = found) \/ pc'[c] = "idle"
        BY <2>6, SetEmptyCounts
      <3> QED
        BY <2>2, <2>3, <3>1, <3>2 DEF Carries
    <2>7. CASE UnlinkBlock(c)
      <3>1. headIndex' = headIndex /\ pc[c] = "unlink" /\ pc'[c] = "free" /\ found' = found
        BY <2>7, UnlinkDoes, LastSteps
      <3> QED
        BY <2>2, <3>1 DEF Carries
    <2>8. CASE FreeBlock(c)
      <3>1. headIndex' = headIndex /\ pc[c] = "free" /\ pc'[c] = "idle"
        BY <2>0, <2>8 DEF FreeBlock, Goto, counters
      <3> QED
        BY <2>3, <3>1 DEF Carries
    <2> QED
      BY <1>3, <2>1, <2>4, <2>5, <2>6, <2>7, <2>8 DEF Consumer
  <1> QED
    BY <1>1, <1>2, <1>3 DEF Next, NoConsumer

\* The sub-queue is a bounded FIFO: whatever the sizes and the number of consumers, every
\* accepted message is claimed by one consumer, in order, found where it was put, and
\* given to the caller.
THEOREM SubQueueIsFifo == Spec => ImplementsFifo
  <1>1. (TypeOK /\ RoomInv /\ HeadNeverPassesTail /\ LayoutInv)
           /\ (TypeOK /\ RoomInv /\ HeadNeverPassesTail /\ LayoutInv)' /\ [Next]_vars
           => [AsFifo!Next]_AsFifo!vars
    BY FifoStep DEF Good
  <1> QED
    BY FifoAtFirst, <1>1, TypeCorrect, RoomCorrect, ClaimsNeverPassTail, LayoutCorrect, PTL
       DEF Spec, ImplementsFifo, AsFifo!Spec

-----------------------------------------------------------------------------
(* Nothing left *)

\* A step that changes no ticket, lets nobody decide and nobody give up.
LEMMA DrainFrame ==
  ASSUME DrainInv, UNCHANGED <<dequeueOptimisticCount, won, lost>>,
         \A c \in Consumers : \/ pc'[c] = pc[c] /\ ticket'[c] = ticket[c]
                              \/ ~Pending(c) /\ pc'[c] # "giveup"
  PROVE  DrainInv'
<1>1. EveryTicketCounts'
  <2>1. \A c \in Consumers : Pending(c) => Pending(c)' /\ ticket'[c].count = ticket[c].count
    BY DEF Pending
  <2> QED BY <2>1 DEF DrainInv, EveryTicketCounts, Tickets
<1>2. GivenUpBeyond'
  BY DEF DrainInv, GivenUpBeyond
<1> QED BY <1>1, <1>2 DEF DrainInv

LEMMA TakeDrains ==
  ASSUME TypeOK, DrainInv, NEW c \in Consumers, TakeTicket(c)
  PROVE  DrainInv'
<1>1. /\ pc[c] = "ticket" /\ pc'[c] = "recheck" /\ ticket'[c].count = dequeueOptimisticCount
      /\ \A d \in Consumers \ {c} : pc'[d] = pc[d] /\ ticket'[d] = ticket[d]
      /\ dequeueOptimisticCount' = dequeueOptimisticCount + 1
      /\ dequeueOptimisticCount \in Nat /\ UNCHANGED <<won, lost>>
  BY DEF TakeTicket, Goto, history, TypeOK, TicketType
<1>2. EveryTicketCounts'
  <2>1. ASSUME NEW n \in Tickets'
        PROVE  n \in won' \cup lost' \/ \E d \in Consumers : Pending(d)' /\ ticket'[d].count = n
    <3>1. CASE n = dequeueOptimisticCount
      BY <1>1, <3>1 DEF Pending
    <3>2. CASE n # dequeueOptimisticCount
      <4>1. n \in Tickets
        BY <1>1, <3>2 DEF Tickets
      <4>2. CASE n \in won \cup lost
        BY <1>1, <4>2
      <4>3. CASE \E d \in Consumers : Pending(d) /\ ticket[d].count = n
        <5>1. PICK d \in Consumers : Pending(d) /\ ticket[d].count = n
          BY <4>3
        <5>2. d # c
          BY <1>1, <5>1 DEF Pending
        <5>3. Pending(d)' /\ ticket'[d].count = n
          BY <1>1, <5>1, <5>2 DEF Pending
        <5> QED BY <5>3
      <4> QED BY <4>1, <4>2, <4>3 DEF DrainInv, EveryTicketCounts
    <3> QED BY <3>1, <3>2
  <2> QED BY <2>1 DEF EveryTicketCounts
<1>3. GivenUpBeyond'
  BY <1>1 DEF DrainInv, GivenUpBeyond
<1> QED BY <1>2, <1>3 DEF DrainInv

\* The decision: the tail it is made with is no older than the one the call began with.
LEMMA RecheckDrains ==
  ASSUME TypeOK, DrainInv, NEW c \in Consumers, Recheck(c)
  PROVE  DrainInv'
<1>1. PICK t \in Recent(tailIndex) :
         /\ t >= ticket[c].tail
         /\ pc' = [pc EXCEPT ![c] = IF Below(ticket[c].count, ticket[c].overcommit, t)
                                    THEN "claim" ELSE "giveup"]
  BY DEF Recheck, Goto, RecentSince
<1>2. pc[c] = "recheck" /\ UNCHANGED <<dequeueOptimisticCount, ticket, won, lost>>
  BY DEF Recheck, Goto, Keep, history, counters
<1>3. /\ \A d \in Consumers \ {c} : pc'[d] = pc[d]
      /\ pc'[c] = IF Below(ticket[c].count, ticket[c].overcommit, t)
                  THEN "claim" ELSE "giveup"
  BY <1>1 DEF TypeOK
<1>4. EveryTicketCounts'
  <2>1. \A d \in Consumers : Pending(d) => Pending(d)' /\ ticket'[d].count = ticket[d].count
    BY <1>2, <1>3 DEF Pending
  <2> QED BY <1>2, <2>1 DEF DrainInv, EveryTicketCounts, Tickets
<1>5. GivenUpBeyond'
  <2>1. ASSUME pc'[c] = "giveup" PROVE ticket[c].tail <= ticket[c].count - ticket[c].overcommit
    <3>1. ~Below(ticket[c].count, ticket[c].overcommit, t)
      BY <1>3, <2>1
    <3>2. /\ ticket[c].tail \in Nat /\ ticket[c].count \in Nat /\ ticket[c].overcommit \in Nat
          /\ t \in Nat
      BY <1>1, LoadsAreNatural DEF TypeOK, TicketType
    <3> QED BY <1>1, <3>1, <3>2 DEF Below
  <2> QED BY <1>2, <1>3, <2>1 DEF DrainInv, GivenUpBeyond
<1> QED BY <1>4, <1>5 DEF DrainInv

LEMMA DecidedDrains ==
  ASSUME TypeOK, DrainInv, NEW c \in Consumers, GiveUp(c) \/ Claim(c)
  PROVE  DrainInv'
<1>1. /\ won' \cup lost' = won \cup lost \cup {ticket[c].count}
      /\ dequeueOptimisticCount' = dequeueOptimisticCount
  BY DEF GiveUp, Claim
<1>2. /\ pc'[c] # "giveup"
      /\ \A d \in Consumers \ {c} : pc'[d] = pc[d] /\ ticket'[d] = ticket[d]
  BY DEF GiveUp, Claim, Goto, Return, TypeOK
<1>3. EveryTicketCounts'
  BY <1>1, <1>2 DEF DrainInv, EveryTicketCounts, Tickets, Pending
<1>4. GivenUpBeyond'
  BY <1>2 DEF DrainInv, GivenUpBeyond
<1> QED BY <1>3, <1>4 DEF DrainInv

LEMMA StepDrain == TypeOK /\ DrainInv /\ [Next]_vars => DrainInv'
<1> SUFFICES ASSUME TypeOK, DrainInv, [Next]_vars PROVE DrainInv'
  OBVIOUS
<1>1. CASE Producer \/ (\E b \in Blocks : Settle(b) \/ OtherTakes(b) \/ OtherReturns(b))
           \/ Destroy \/ UNCHANGED vars
  <2>1. UNCHANGED <<dequeueOptimisticCount, won, lost, pc, ticket>>
    BY <1>1 DEF Producer, EnqueueStart, CheckRoom, InsertKey, InsertRefused,
                AdvanceIndex, Requisition, RequisitionFails, RewindIndex,
                ClearEntry, ResetEmpty, PublishBlock, WriteElement, Commit,
                Settle, OtherTakes, OtherReturns, Destroy, vars, counters, consumer, history
  <2> QED BY <2>1, DrainFrame
<1>2. ASSUME NEW c \in Consumers, Consumer(c) PROVE DrainInv'
  <2>1. ASSUME UNCHANGED <<dequeueOptimisticCount, won, lost>>, pc[c] \notin {"recheck", "claim", "giveup"},
               pc'[c] # "giveup",
               \A d \in Consumers \ {c} : pc'[d] = pc[d] /\ ticket'[d] = ticket[d]
        PROVE  DrainInv'
    BY <2>1, DrainFrame DEF Pending
  <2>2. CASE LoadTail(c) \/ LoadOvercommit(c) \/ CheckAvailable(c)
    <3>1. /\ UNCHANGED <<dequeueOptimisticCount, won, lost>>
          /\ pc[c] \notin {"recheck", "claim", "giveup"} /\ pc'[c] # "giveup"
          /\ \A d \in Consumers \ {c} : pc'[d] = pc[d] /\ ticket'[d] = ticket[d]
      BY <2>2 DEF LoadTail, LoadOvercommit, CheckAvailable, Goto, Keep, Return, TypeOK,
                  counters, history
    <3> QED BY <2>1, <3>1
  <2>3. CASE \/ LoadIndexTail(c) \/ LookUpSlot(c) \/ LoadBlock(c)
             \/ MoveElement(c) \/ SetEmpty(c) \/ UnlinkBlock(c) \/ FreeBlock(c)
    <3>1. /\ UNCHANGED <<dequeueOptimisticCount, won, lost>>
          /\ pc[c] \notin {"recheck", "claim", "giveup"} /\ pc'[c] # "giveup"
          /\ \A d \in Consumers \ {c} : pc'[d] = pc[d] /\ ticket'[d] = ticket[d]
      BY <2>3 DEF LoadIndexTail, LookUpSlot, LoadBlock, MoveElement, SetEmpty,
                  UnlinkBlock, FreeBlock, Goto, Keep, Return, TypeOK, counters, history
    <3> QED BY <2>1, <3>1
  <2> QED BY <1>2, <2>2, <2>3, TakeDrains, RecheckDrains, DecidedDrains DEF Consumer
<1> QED BY <1>1, <1>2 DEF Next

LEMMA InitDrain == Init => DrainInv
BY DEF Init, DrainInv, EveryTicketCounts, GivenUpBeyond, Tickets

LEMMA UnionAtMost ==
  ASSUME NEW S, NEW T, IsFiniteSet(S), IsFiniteSet(T)
  PROVE  /\ IsFiniteSet(S \cup T)
         /\ Cardinality(S \cup T) <= Cardinality(S) + Cardinality(T)
<1>1. /\ IsFiniteSet(S \cup T)
      /\ Cardinality(S \cup T) = Cardinality(S) + Cardinality(T) - Cardinality(S \cap T)
  BY FS_Union
<1>2. IsFiniteSet(S \cap T)
  BY FS_Subset
<1>3. /\ Cardinality(S) \in Nat /\ Cardinality(T) \in Nat /\ Cardinality(S \cap T) \in Nat
  BY <1>2, FS_CardinalityType
<1> QED BY <1>1, <1>3

\* When nobody else holds a ticket, they are all counted.
LEMMA AllCounted ==
  ASSUME TypeOK, TicketInv, DrainInv, NEW c \in Consumers,
         \A d \in Consumers \ {c} : ~Pending(d)
  PROVE  dequeueOptimisticCount <= headIndex + dequeueOvercommit + (IF Pending(c) THEN 1 ELSE 0)
<1> DEFINE mine == IF Pending(c) THEN {ticket[c].count} ELSE {}
<1>1. /\ dequeueOptimisticCount \in Nat /\ IsFiniteSet(won) /\ IsFiniteSet(lost)
      /\ Cardinality(won) = headIndex /\ Cardinality(lost) = dequeueOvercommit
      /\ headIndex \in Nat /\ dequeueOvercommit \in Nat
  BY TicketSetsFinite DEF TypeOK, TicketInv, TicketsCounted
<1>2. IsFiniteSet(Tickets) /\ Cardinality(Tickets) = dequeueOptimisticCount
  <2>1. \A n \in Nat : IsFiniteSet(0 .. n - 1) /\ Cardinality(0 .. n - 1) = n
    BY FS_Interval
  <2> QED BY <1>1, <2>1 DEF Tickets
<1>3. IsFiniteSet(mine) /\ Cardinality(mine) = (IF Pending(c) THEN 1 ELSE 0)
  BY FS_Singleton, FS_EmptySet
<1>4. Tickets \subseteq (won \cup lost) \cup mine
  BY DEF DrainInv, EveryTicketCounts
<1> HIDE DEF mine
<1>5. /\ IsFiniteSet(won \cup lost)
      /\ Cardinality(won \cup lost) <= Cardinality(won) + Cardinality(lost)
  BY <1>1, UnionAtMost
<1>6. /\ IsFiniteSet((won \cup lost) \cup mine)
      /\ Cardinality((won \cup lost) \cup mine)
            <= Cardinality(won \cup lost) + Cardinality(mine)
  BY <1>3, <1>5, UnionAtMost
<1>7. Cardinality(Tickets) <= Cardinality((won \cup lost) \cup mine)
  BY <1>4, <1>6, FS_Subset
<1>8. /\ Cardinality(won \cup lost) \in Nat
      /\ Cardinality((won \cup lost) \cup mine) \in Nat
  BY <1>5, <1>6, FS_CardinalityType
<1> QED BY <1>1, <1>2, <1>3, <1>5, <1>6, <1>7, <1>8

LEMMA StepEmpty ==
  ASSUME TypeOK, TicketInv, LayoutInv, DrainInv, Next, NEW c \in Consumers,
         pc[c] # "idle", pc'[c] = "idle", element[c] = NoMessage
  PROVE  \/ headIndex >= ticket[c].tail
         \/ \E d \in Consumers \ {c} : Pending(d)
         \/ dequeueOvercommit # ticket[c].overcommit
<1> SUFFICES ASSUME \A d \in Consumers \ {c} : ~Pending(d),
                    dequeueOvercommit = ticket[c].overcommit
             PROVE  headIndex >= ticket[c].tail
  OBVIOUS
<1>0. /\ dequeueOptimisticCount \in Nat /\ headIndex \in Nat /\ dequeueOvercommit \in Nat
      /\ ticket[c].tail \in Nat /\ ticket[c].overcommit \in Nat /\ ticket[c].count \in Nat
  BY DEF TypeOK, TicketType
<1>1. dequeueOptimisticCount <= headIndex + dequeueOvercommit + (IF Pending(c) THEN 1 ELSE 0)
  BY AllCounted
<1>2. Consumer(c)
  <2>1. CASE Producer \/ (\E b \in Blocks : Settle(b) \/ OtherTakes(b) \/ OtherReturns(b))
             \/ Destroy
    <3>1. pc' = pc
      BY <2>1 DEF Producer, EnqueueStart, CheckRoom, InsertKey, InsertRefused,
                  AdvanceIndex, Requisition, RequisitionFails, RewindIndex,
                  ClearEntry, ResetEmpty, PublishBlock, WriteElement, Commit,
                  Settle, OtherTakes, OtherReturns, Destroy, consumer
    <3> QED BY <3>1
  <2>2. ASSUME NEW d \in Consumers, d # c, Consumer(d) PROVE FALSE
    <3>1. pc'[c] = pc[c]
      BY <2>2 DEF Consumer, LoadTail, LoadOvercommit, CheckAvailable, TakeTicket, Recheck,
                  GiveUp, Claim, LoadIndexTail, LookUpSlot, LoadBlock, MoveElement,
                  SetEmpty, UnlinkBlock, FreeBlock, Goto, TypeOK
    <3> QED BY <3>1
  <2> QED BY <2>1, <2>2 DEF Next
<1>3. pc[c] \notin {"empty", "free"}
  BY DEF LayoutInv, ClaimRight, InHand, TypeOK, FoundType, NoMessage
<1>4. CheckAvailable(c) \/ GiveUp(c)
  BY <1>2, <1>3 DEF Consumer, LoadTail, LoadOvercommit, TakeTicket, Recheck, Claim,
     LoadIndexTail, LookUpSlot, LoadBlock, MoveElement, SetEmpty, UnlinkBlock, FreeBlock,
     Goto, TypeOK
<1>5. CASE CheckAvailable(c)
  <2>1. ~Pending(c)
    BY <1>5 DEF CheckAvailable, Goto, Pending
  <2>2. PICK n \in Recent(dequeueOptimisticCount) : ~Below(n, ticket[c].overcommit, ticket[c].tail)
    BY <1>5 DEF CheckAvailable, Goto, TypeOK
  <2>3. n \in Nat /\ n <= dequeueOptimisticCount
    BY <1>0, LoadsAreNatural
  <2> QED BY <1>0, <1>1, <2>1, <2>2, <2>3 DEF Below
<1>6. CASE GiveUp(c)
  <2>1. pc[c] = "giveup" /\ Pending(c)
    BY <1>6 DEF GiveUp, Goto, Pending
  <2>2. ticket[c].tail <= ticket[c].count - ticket[c].overcommit
    BY <2>1 DEF DrainInv, GivenUpBeyond
  <2>3. ticket[c].count <= dequeueOptimisticCount - 1
    BY <1>0, <2>1 DEF TicketInv, PendingTickets, Tickets
  <2> QED BY <1>0, <1>1, <2>1, <2>2, <2>3
<1> QED BY <1>4, <1>5, <1>6

\* What a call that returns false has seen: everything that was in the sub-queue as it
\* began was dequeued, unless another consumer interfered, however stale its loads.
THEOREM FalseMeansDrained == Spec => EmptyMeansDrained
<1>1. Spec => []DrainInv
  BY InitTypes, StepTypes, InitDrain, StepDrain, TypeCorrect, PTL DEF Spec
<1>2. TypeOK /\ TicketInv /\ LayoutInv /\ DrainInv /\ [Next]_vars =>
         [\A c \in Consumers :
             pc[c] # "idle" /\ pc'[c] = "idle" /\ element[c] = NoMessage =>
                \/ headIndex >= ticket[c].tail
                \/ \E d \in Consumers \ {c} : Pending(d)
                \/ dequeueOvercommit # ticket[c].overcommit]_vars
  BY StepEmpty
<1> QED BY <1>1, <1>2, TypeCorrect, TicketsCorrect, LayoutCorrect, PTL DEF Spec, EmptyMeansDrained

=============================================================================
