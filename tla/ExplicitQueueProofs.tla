------------------------ MODULE ExplicitQueueProofs ------------------------
(***************************************************************************)
(* Theorems about ExplicitQueue, for every number of consumers, every size *)
(* of call, block and index the assumptions allow: its tickets and claims, *)
(* its circle of blocks, the destructor, and that it is a bounded FIFO.    *)
(***************************************************************************)
EXTENDS ExplicitQueue, FiniteSetTheorems, SequenceTheorems,
        WellFoundedInduction, TLAPS

-----------------------------------------------------------------------------
(* Steps of consumers, and the types of what the tickets are made of *)

AllTickets == [max : Nat, tail : Nat, overcommit : Nat, count : Nat, desired : Nat,
               actual : Nat]
Places == {"idle", "over", "check", "ticket", "recheck", "claim", "giveup", "front",
           "base", "block", "move", "empty"}

CounterTypes ==
    /\ tailIndex \in Nat /\ headIndex \in Nat
    /\ dequeueOptimisticCount \in Nat /\ dequeueOvercommit \in Nat
    /\ ticket \in [Consumers -> AllTickets] /\ pc \in [Consumers -> Places]

LEMMA TypesOfCounters == TypeOK => CounterTypes
  BY DEF TypeOK, CounterTypes, AllTickets, Places

LEMMA OthersStay ==
  ASSUME TypeOK, NEW c \in Consumers, Consumer(c), NEW d \in Consumers, d # c
  PROVE  pc'[d] = pc[d] /\ ticket'[d] = ticket[d] /\ found'[d] = found[d]
<1> USE DEF TypeOK, Goto, Return
<1>1. CASE \E n \in TakeSizes : LoadTail(c, n)
  BY <1>1 DEF LoadTail
<1>2. CASE LoadOvercommit(c)
  BY <1>2 DEF LoadOvercommit
<1>3. CASE CheckAvailable(c)
  BY <1>3 DEF CheckAvailable
<1>4. CASE TakeTickets(c)
  BY <1>4 DEF TakeTickets
<1>5. CASE Recheck(c)
  BY <1>5 DEF Recheck
<1>6. CASE GiveUp(c)
  BY <1>6 DEF GiveUp
<1>7. CASE Claim(c)
  BY <1>7 DEF Claim
<1>8. CASE LoadFront(c)
  BY <1>8 DEF LoadFront
<1>9. CASE LoadBase(c)
  BY <1>9 DEF LoadBase
<1>10. CASE LoadBlock(c)
  BY <1>10 DEF LoadBlock
<1>11. CASE MoveElements(c)
  BY <1>11 DEF MoveElements
<1>12. CASE SetEmpty(c)
  BY <1>12 DEF SetEmpty
<1> QED BY <1>1, <1>2, <1>3, <1>4, <1>5, <1>6, <1>7, <1>8, <1>9, <1>10, <1>11, <1>12
         DEF Consumer

Others == \E b \in Blocks : OtherTakes(b) \/ OtherReturns(b)

\* The steps of the producer, of other producers and of the destructor leave the
\* consumers and their counters alone; only Commit moves the tail.
LEMMA ConsumersStay ==
  ASSUME Producer \/ Others \/ Destroy
  PROVE  UNCHANGED <<pc, ticket, found, headIndex, dequeueOptimisticCount,
                     dequeueOvercommit>>
<1>1. CASE Producer
  BY <1>1 DEF Producer, EnqueueStart, ReuseBlock, NeedBlock, CheckRoom, Requisition,
              RequisitionFails, StoreBase, StoreBlock, StoreFront, WriteElements, Commit,
              counters, consumer
<1>2. CASE Others
  BY <1>2 DEF Others, OtherTakes, OtherReturns, counters, consumer
<1>3. CASE Destroy
  BY <1>3 DEF Destroy, counters, consumer
<1> QED BY <1>1, <1>2, <1>3

LEMMA TailGrows ==
  ASSUME TypeOK, Producer \/ Others \/ Destroy
  PROVE  tailIndex' \in Nat /\ tailIndex' >= tailIndex
<1>1. tailIndex \in Nat /\ batch.count \in Nat
  BY DEF TypeOK
<1>2. CASE Commit
  BY <1>1, <1>2 DEF Commit
<1>3. CASE Producer /\ ~Commit
  <2>1. UNCHANGED tailIndex
    BY <1>3 DEF Producer, EnqueueStart, ReuseBlock, NeedBlock, CheckRoom, Requisition,
                RequisitionFails, StoreBase, StoreBlock, StoreFront, WriteElements, counters
  <2> QED BY <1>1, <2>1
<1>4. CASE Others
  BY <1>1, <1>4 DEF Others, OtherTakes, OtherReturns, counters
<1>5. CASE Destroy
  BY <1>1, <1>5 DEF Destroy, counters
<1> QED BY <1>2, <1>3, <1>4, <1>5

\* The steps of a consumer that leave the four counters alone.
Quietly(c) ==
    \/ \E n \in TakeSizes : LoadTail(c, n)
    \/ LoadOvercommit(c) \/ CheckAvailable(c) \/ Recheck(c) \/ LoadFront(c)
    \/ LoadBase(c) \/ LoadBlock(c) \/ MoveElements(c) \/ SetEmpty(c)

LEMMA QuietSteps ==
  ASSUME NEW c \in Consumers, Quietly(c)
  PROVE  UNCHANGED counters
  BY DEF Quietly, LoadTail, LoadOvercommit, CheckAvailable, Recheck, LoadFront, LoadBase,
         LoadBlock, MoveElements, SetEmpty

LEMMA ConsumerCases ==
  ASSUME NEW c \in Consumers, Consumer(c)
  PROVE  Quietly(c) \/ TakeTickets(c) \/ GiveUp(c) \/ Claim(c)
  BY DEF Consumer, Quietly

LEMMA ProducerStays ==
  ASSUME NEW c \in Consumers, Consumer(c)
  PROVE  UNCHANGED <<tailIndex, circle, index, places, producer>>
<1> USE DEF counters
<1>1. CASE Quietly(c)
  BY <1>1, QuietSteps
     DEF Quietly, LoadTail, LoadOvercommit, CheckAvailable, Recheck, LoadFront, LoadBase,
         LoadBlock, MoveElements, SetEmpty
<1>2. CASE TakeTickets(c) \/ GiveUp(c) \/ Claim(c)
  BY <1>2 DEF TakeTickets, GiveUp, Claim
<1> QED BY <1>1, <1>2, ConsumerCases

-----------------------------------------------------------------------------
(* What each step of dequeue does to its tickets *)

LEMMA MinIs ==
  ASSUME NEW a \in Int, NEW b \in Int
  PROVE  Min2(a, b) \in Int /\ Min2(a, b) <= a /\ Min2(a, b) <= b
         /\ (Min2(a, b) = a \/ Min2(a, b) = b)
  BY DEF Min2

LEMMA TicketFieldTypes ==
  ASSUME TypeOK, NEW c \in Consumers
  PROVE  /\ ticket[c] \in AllTickets
         /\ ticket[c].max \in Nat /\ ticket[c].tail \in Nat
         /\ ticket[c].overcommit \in Nat /\ ticket[c].count \in Nat
         /\ ticket[c].desired \in Nat /\ ticket[c].actual \in Nat
<1>1. ticket[c] \in AllTickets
  BY DEF TypeOK, AllTickets
<1> QED BY <1>1 DEF AllTickets

LEMMA LoadTailDoes ==
  ASSUME TypeOK, NEW c \in Consumers, NEW n \in TakeSizes, LoadTail(c, n)
  PROVE  /\ pc[c] = "idle" /\ pc' = [pc EXCEPT ![c] = "over"]
         /\ \E t \in AllTickets : ticket' = [ticket EXCEPT ![c] = t] /\ t.max > 0
<1> DEFINE t == [ticket[c] EXCEPT !.max = n, !.tail = tailIndex]
<1>1. n \in Nat /\ n > 0 /\ tailIndex \in Nat
  BY SizeAssumption DEF TypeOK
<1>2. t \in AllTickets /\ t.max = n
  BY <1>1, TicketFieldTypes DEF AllTickets
<1>3. ticket' = [ticket EXCEPT ![c] = t]
  BY DEF LoadTail, TypeOK
<1> QED BY <1>1, <1>2, <1>3 DEF LoadTail, Goto

LEMMA LoadOvercommitDoes ==
  ASSUME TypeOK, NEW c \in Consumers, LoadOvercommit(c)
  PROVE  /\ pc[c] = "over" /\ pc' = [pc EXCEPT ![c] = "check"]
         /\ \E t \in AllTickets :
               /\ ticket' = [ticket EXCEPT ![c] = t]
               /\ t.max = ticket[c].max /\ t.overcommit = dequeueOvercommit
<1> DEFINE t == [ticket[c] EXCEPT !.overcommit = dequeueOvercommit]
<1>1. dequeueOvercommit \in Nat
  BY DEF TypeOK
<1>2. t \in AllTickets /\ t.max = ticket[c].max /\ t.overcommit = dequeueOvercommit
  BY <1>1, TicketFieldTypes DEF AllTickets
<1>3. ticket' = [ticket EXCEPT ![c] = t]
  BY DEF LoadOvercommit, TypeOK
<1> QED BY <1>2, <1>3 DEF LoadOvercommit, Goto

LEMMA NoTicketIs ==
  /\ NoTicket \in AllTickets /\ NoTicket.actual = 0 /\ NoTicket.desired = 0
  /\ NoTicket.count = 0 /\ NoTicket.max = 0 /\ NoTicket.overcommit = 0
  BY DEF NoTicket, AllTickets

LEMMA CheckDoes ==
  ASSUME TypeOK, NEW c \in Consumers, CheckAvailable(c), ticket[c].max > 0
  PROVE  /\ pc[c] = "check"
         /\ \/ /\ pc' = [pc EXCEPT ![c] = "idle"]
               /\ ticket' = [ticket EXCEPT ![c] = NoTicket]
            \/ /\ pc' = [pc EXCEPT ![c] = "ticket"]
               /\ \E t \in AllTickets :
                     /\ ticket' = [ticket EXCEPT ![c] = t] /\ t.desired > 0
                     /\ t.max = ticket[c].max /\ t.overcommit = ticket[c].overcommit
<1> DEFINE left == ticket[c].tail - (dequeueOptimisticCount - ticket[c].overcommit)
           n == Min2(left, ticket[c].max)
           t == [ticket[c] EXCEPT !.desired = n]
<1>1. left \in Int
  BY TicketFieldTypes DEF TypeOK
<1>2. /\ pc[c] = "check"
      /\ \/ /\ left > 0 /\ pc' = [pc EXCEPT ![c] = "ticket"]
            /\ ticket' = [ticket EXCEPT ![c].desired = n]
         \/ /\ left <= 0 /\ pc' = [pc EXCEPT ![c] = "idle"]
            /\ ticket' = [ticket EXCEPT ![c] = NoTicket]
  BY DEF CheckAvailable, Goto, Return, left
<1>6. ticket[c].max \in Nat
  BY TicketFieldTypes
<1>3. left > 0 => n \in Nat /\ n > 0
  BY <1>1, <1>6 DEF Min2
<1> HIDE DEF n
<1>4. n \in Nat => /\ t \in AllTickets /\ t.desired = n
                   /\ t.max = ticket[c].max /\ t.overcommit = ticket[c].overcommit
  BY TicketFieldTypes DEF AllTickets
<1>5. [ticket EXCEPT ![c].desired = n] = [ticket EXCEPT ![c] = t]
  BY DEF TypeOK
<1> HIDE DEF t
<1> QED BY <1>1, <1>2, <1>3, <1>4, <1>5

LEMMA TakeDoes ==
  ASSUME TypeOK, NEW c \in Consumers, TakeTickets(c)
  PROVE  /\ pc[c] = "ticket" /\ pc' = [pc EXCEPT ![c] = "recheck"]
         /\ UNCHANGED <<headIndex, dequeueOvercommit>>
         /\ dequeueOptimisticCount' = dequeueOptimisticCount + ticket[c].desired
         /\ \E t \in AllTickets :
               /\ ticket' = [ticket EXCEPT ![c] = t]
               /\ t.count = dequeueOptimisticCount
               /\ t.desired = ticket[c].desired
               /\ t.overcommit = ticket[c].overcommit
<1> DEFINE t == [ticket[c] EXCEPT !.count = dequeueOptimisticCount]
<1>1. dequeueOptimisticCount \in Nat
  BY DEF TypeOK
<1>2. t \in AllTickets /\ t.count = dequeueOptimisticCount
      /\ t.desired = ticket[c].desired /\ t.overcommit = ticket[c].overcommit
  BY <1>1, TicketFieldTypes DEF AllTickets
<1>3. ticket' = [ticket EXCEPT ![c] = t]
  BY DEF TakeTickets, TypeOK
<1> QED BY <1>2, <1>3 DEF TakeTickets, Goto

\* The tickets that win are those for which the tail leaves room.
LEMMA RecheckDoes ==
  ASSUME TypeOK, NEW c \in Consumers, Recheck(c), ticket[c].desired > 0
  PROVE  /\ pc[c] = "recheck"
         /\ \E t \in AllTickets :
               /\ ticket' = [ticket EXCEPT ![c] = t]
               /\ t.count = ticket[c].count /\ t.desired = ticket[c].desired
               /\ t.actual <= t.desired
               /\ t.actual > 0 =>
                     t.actual <= tailIndex - (ticket[c].count - ticket[c].overcommit)
               /\ pc' = [pc EXCEPT ![c] = IF t.actual < t.desired THEN "giveup"
                                                                  ELSE "claim"]
<1> DEFINE left == tailIndex - (ticket[c].count - ticket[c].overcommit)
           n == IF left > 0 THEN Min2(left, ticket[c].desired) ELSE 0
           t == [ticket[c] EXCEPT !.actual = n]
<1>6. tailIndex \in Nat
  BY DEF TypeOK
<1>1. left \in Int
  BY <1>6, TicketFieldTypes
<1> HIDE DEF left
<1>2. n \in Nat /\ n <= ticket[c].desired /\ (n > 0 => n <= left)
  <2>1. ticket[c].desired \in Nat
    BY TicketFieldTypes
  <2> QED BY <1>1, <2>1 DEF Min2
<1>3. ticket' = [ticket EXCEPT ![c] = t]
      /\ pc' = [pc EXCEPT ![c] = IF n < ticket[c].desired THEN "giveup" ELSE "claim"]
  BY DEF Recheck, TypeOK, Goto, left
<1> HIDE DEF n
<1>4. t \in AllTickets /\ t.actual = n
      /\ t.count = ticket[c].count /\ t.desired = ticket[c].desired
  BY <1>2, TicketFieldTypes DEF AllTickets
<1> HIDE DEF t
<1>5. pc[c] = "recheck"
  BY DEF Recheck, Goto
<1> QED BY <1>2, <1>3, <1>4, <1>5 DEF left

LEMMA GiveUpDoes ==
  ASSUME TypeOK, NEW c \in Consumers, GiveUp(c)
  PROVE  /\ pc[c] = "giveup" /\ UNCHANGED <<headIndex, dequeueOptimisticCount>>
         /\ dequeueOvercommit' = dequeueOvercommit + ticket[c].desired - ticket[c].actual
         /\ \/ /\ ticket[c].actual > 0
               /\ pc' = [pc EXCEPT ![c] = "claim"] /\ ticket' = ticket
            \/ /\ ticket[c].actual = 0
               /\ pc' = [pc EXCEPT ![c] = "idle"]
               /\ ticket' = [ticket EXCEPT ![c] = NoTicket]
  BY TicketFieldTypes DEF GiveUp, Goto, Return

LEMMA ClaimDoes ==
  ASSUME TypeOK, NEW c \in Consumers, Claim(c)
  PROVE  /\ pc[c] = "claim" /\ pc' = [pc EXCEPT ![c] = "front"]
         /\ UNCHANGED <<dequeueOptimisticCount, dequeueOvercommit>>
         /\ headIndex' = headIndex + ticket[c].actual
         /\ \E t \in AllTickets :
               /\ ticket' = [ticket EXCEPT ![c] = t]
               /\ t.actual = ticket[c].actual /\ t.desired = 0
<1> DEFINE t == [NoTicket EXCEPT !.actual = ticket[c].actual]
<1>1. t \in AllTickets /\ t.actual = ticket[c].actual /\ t.desired = 0
  BY TicketFieldTypes DEF AllTickets, NoTicket
<1> QED BY <1>1 DEF Claim, Goto

\* The steps after a claim.
Handles(c) ==
    LoadFront(c) \/ LoadBase(c) \/ LoadBlock(c) \/ MoveElements(c) \/ SetEmpty(c)

HandPlaces == {"front", "base", "block", "move", "empty"}

LEMMA HandDoes ==
  ASSUME TypeOK, NEW c \in Consumers, Handles(c)
  PROVE  /\ pc[c] \in HandPlaces
         /\ \/ /\ \E to \in HandPlaces : pc' = [pc EXCEPT ![c] = to]
               /\ ticket' = ticket
            \/ /\ pc' = [pc EXCEPT ![c] = "idle"]
               /\ ticket' = [ticket EXCEPT ![c] = NoTicket]
<1> USE DEF HandPlaces, Goto
<1>1. CASE LoadFront(c)
  BY <1>1 DEF LoadFront
<1>2. CASE LoadBase(c)
  BY <1>2 DEF LoadBase
<1>3. CASE LoadBlock(c)
  BY <1>3 DEF LoadBlock
<1>4. CASE MoveElements(c)
  BY <1>4 DEF MoveElements
<1>5. CASE SetEmpty(c)
  BY <1>5 DEF SetEmpty, Return
<1> QED BY <1>1, <1>2, <1>3, <1>4, <1>5 DEF Handles

LEMMA HandleCases ==
  ASSUME NEW c \in Consumers, Consumer(c)
  PROVE  \/ \E n \in TakeSizes : LoadTail(c, n)
         \/ LoadOvercommit(c) \/ CheckAvailable(c) \/ TakeTickets(c) \/ Recheck(c)
         \/ GiveUp(c) \/ Claim(c) \/ Handles(c)
  BY DEF Consumer, Handles

\* The counters other than the tail, the tickets' types and their fields.
LEMMA ConsumerFields ==
  ASSUME TypeOK, \A e \in Consumers : TicketFields(e), NEW c \in Consumers, Consumer(c)
  PROVE  CounterTypes' /\ TicketFields(c)' /\ dequeueOvercommit' >= dequeueOvercommit
<1>0. /\ pc \in [Consumers -> Places] /\ ticket \in [Consumers -> AllTickets]
      /\ headIndex \in Nat /\ dequeueOptimisticCount \in Nat /\ dequeueOvercommit \in Nat
      /\ tailIndex \in Nat /\ tailIndex' = tailIndex
  BY TypesOfCounters, ProducerStays DEF CounterTypes
<1>t. /\ ticket[c] \in AllTickets
      /\ ticket[c].max \in Nat /\ ticket[c].tail \in Nat
      /\ ticket[c].overcommit \in Nat /\ ticket[c].count \in Nat
      /\ ticket[c].desired \in Nat /\ ticket[c].actual \in Nat
  BY TicketFieldTypes
<1>f. TicketFields(c)
  OBVIOUS
<1>q. Quietly(c) => headIndex' = headIndex /\ dequeueOvercommit' = dequeueOvercommit
                    /\ dequeueOptimisticCount' = dequeueOptimisticCount
  BY QuietSteps DEF counters
<1> USE DEF CounterTypes, TicketFields, Places, HandPlaces
<1>1. CASE \E n \in TakeSizes : LoadTail(c, n)
  <2>1. Quietly(c)
    BY <1>1 DEF Quietly
  <2>2. PICK t \in AllTickets : ticket' = [ticket EXCEPT ![c] = t] /\ t.max > 0
    BY <1>1, LoadTailDoes
  <2>3. pc' = [pc EXCEPT ![c] = "over"]
    BY <1>1, LoadTailDoes
  <2> QED BY <1>0, <1>q, <2>1, <2>2, <2>3
<1>2. CASE LoadOvercommit(c)
  <2>1. Quietly(c)
    BY <1>2 DEF Quietly
  <2>2. PICK t \in AllTickets :
           /\ ticket' = [ticket EXCEPT ![c] = t]
           /\ t.max = ticket[c].max /\ t.overcommit = dequeueOvercommit
    BY <1>2, LoadOvercommitDoes
  <2>3. pc[c] = "over" /\ pc' = [pc EXCEPT ![c] = "check"]
    BY <1>2, LoadOvercommitDoes
  <2> QED BY <1>0, <1>f, <1>q, <2>1, <2>2, <2>3
<1>3. CASE CheckAvailable(c)
  <2>1. Quietly(c)
    BY <1>3 DEF Quietly
  <2>2. pc[c] = "check"
    BY <1>3 DEF CheckAvailable, Goto
  <2>3. ticket[c].max > 0
    BY <1>f, <2>2
  <2>4. CASE pc' = [pc EXCEPT ![c] = "idle"] /\ ticket' = [ticket EXCEPT ![c] = NoTicket]
    BY <1>0, <1>q, <2>1, <2>4, NoTicketIs
  <2>5. CASE /\ pc' = [pc EXCEPT ![c] = "ticket"]
             /\ \E t \in AllTickets :
                   /\ ticket' = [ticket EXCEPT ![c] = t] /\ t.desired > 0
                   /\ t.max = ticket[c].max /\ t.overcommit = ticket[c].overcommit
    <3>1. PICK t \in AllTickets :
             /\ ticket' = [ticket EXCEPT ![c] = t] /\ t.desired > 0
             /\ t.max = ticket[c].max /\ t.overcommit = ticket[c].overcommit
      BY <2>5
    <3> QED BY <1>0, <1>f, <1>q, <2>1, <2>2, <2>3, <2>5, <3>1
  <2> QED BY <1>3, <2>3, <2>4, <2>5, CheckDoes
<1>4. CASE TakeTickets(c)
  <2>1. PICK t \in AllTickets :
           /\ ticket' = [ticket EXCEPT ![c] = t]
           /\ t.count = dequeueOptimisticCount /\ t.desired = ticket[c].desired
           /\ t.overcommit = ticket[c].overcommit
    BY <1>4, TakeDoes
  <2>2. /\ pc[c] = "ticket" /\ pc' = [pc EXCEPT ![c] = "recheck"]
        /\ headIndex' = headIndex /\ dequeueOvercommit' = dequeueOvercommit
        /\ dequeueOptimisticCount' = dequeueOptimisticCount + ticket[c].desired
    BY <1>4, TakeDoes
  <2> QED BY <1>0, <1>t, <1>f, <2>1, <2>2
<1>5. CASE Recheck(c)
  <2>1. Quietly(c)
    BY <1>5 DEF Quietly
  <2>2. pc[c] = "recheck"
    BY <1>5 DEF Recheck, Goto
  <2>3. ticket[c].desired > 0
    BY <1>f, <2>2
  <2>4. PICK t \in AllTickets :
           /\ ticket' = [ticket EXCEPT ![c] = t]
           /\ t.count = ticket[c].count /\ t.desired = ticket[c].desired
           /\ t.actual <= t.desired
           /\ pc' = [pc EXCEPT ![c] = IF t.actual < t.desired THEN "giveup" ELSE "claim"]
    BY <1>5, <2>3, RecheckDoes
  <2>5. t.actual \in Nat /\ t.desired \in Nat
    BY DEF AllTickets
  <2> QED BY <1>0, <1>q, <2>1, <2>2, <2>3, <2>4, <2>5
<1>6. CASE GiveUp(c)
  <2>1. /\ pc[c] = "giveup" /\ headIndex' = headIndex
        /\ dequeueOptimisticCount' = dequeueOptimisticCount
        /\ dequeueOvercommit' = dequeueOvercommit + ticket[c].desired - ticket[c].actual
    BY <1>6, GiveUpDoes
  <2>2. ticket[c].actual < ticket[c].desired /\ ticket[c].desired > 0
    BY <1>f, <2>1
  <2>3. dequeueOvercommit' \in Nat /\ dequeueOvercommit' >= dequeueOvercommit
    BY <1>0, <1>t, <2>1, <2>2
  <2>4. CASE ticket[c].actual > 0 /\ pc' = [pc EXCEPT ![c] = "claim"] /\ ticket' = ticket
    BY <1>0, <1>f, <2>1, <2>2, <2>3, <2>4
  <2>5. CASE pc' = [pc EXCEPT ![c] = "idle"] /\ ticket' = [ticket EXCEPT ![c] = NoTicket]
    BY <1>0, <1>f, <2>1, <2>2, <2>3, <2>5, NoTicketIs
  <2> QED BY <1>6, <2>4, <2>5, GiveUpDoes
<1>7. CASE Claim(c)
  <2>1. PICK t \in AllTickets :
           /\ ticket' = [ticket EXCEPT ![c] = t]
           /\ t.actual = ticket[c].actual /\ t.desired = 0
    BY <1>7, ClaimDoes
  <2>2. /\ pc[c] = "claim" /\ pc' = [pc EXCEPT ![c] = "front"]
        /\ dequeueOptimisticCount' = dequeueOptimisticCount
        /\ dequeueOvercommit' = dequeueOvercommit
        /\ headIndex' = headIndex + ticket[c].actual
    BY <1>7, ClaimDoes
  <2> QED BY <1>0, <1>t, <1>f, <2>1, <2>2
<1>8. CASE Handles(c)
  <2>1. Quietly(c) /\ pc[c] \in HandPlaces
    BY <1>8, HandDoes DEF Quietly, Handles
  <2>2. CASE (\E to \in HandPlaces : pc' = [pc EXCEPT ![c] = to]) /\ ticket' = ticket
    BY <1>0, <1>f, <1>q, <2>1, <2>2
  <2>3. CASE pc' = [pc EXCEPT ![c] = "idle"] /\ ticket' = [ticket EXCEPT ![c] = NoTicket]
    BY <1>0, <1>f, <1>q, <2>1, <2>3, NoTicketIs
  <2> QED BY <1>8, <2>2, <2>3, HandDoes
<1> QED BY <1>1, <1>2, <1>3, <1>4, <1>5, <1>6, <1>7, <1>8, HandleCases

LEMMA FieldsStay ==
  ASSUME NEW d \in Consumers, TicketFields(d), pc'[d] = pc[d], ticket'[d] = ticket[d],
         TypeOK, dequeueOvercommit' \in Nat, dequeueOvercommit' >= dequeueOvercommit
  PROVE  TicketFields(d)'
<1>1. ticket[d].overcommit \in Nat /\ dequeueOvercommit \in Nat
  BY TicketFieldTypes DEF TypeOK
<1> QED BY <1>1 DEF TicketFields

LEMMA NextCases ==
  ASSUME Next
  PROVE  Producer \/ Others \/ Destroy \/ \E c \in Consumers : Consumer(c)
  BY DEF Next, Others

LEMMA StepFields ==
  ASSUME TypeOK, TicketInv, Next
  PROVE  CounterTypes' /\ \A c \in Consumers : TicketFields(c)'
<1>1. \A e \in Consumers : TicketFields(e)
  BY DEF TicketInv
<1>2. CASE Producer \/ Others \/ Destroy
  <2>1. /\ pc' = pc /\ ticket' = ticket /\ headIndex' = headIndex
        /\ dequeueOptimisticCount' = dequeueOptimisticCount
        /\ dequeueOvercommit' = dequeueOvercommit /\ tailIndex' \in Nat
    BY <1>2, ConsumersStay, TailGrows
  <2>2. CounterTypes'
    BY <2>1, TypesOfCounters DEF CounterTypes
  <2>3. dequeueOvercommit' \in Nat /\ dequeueOvercommit' >= dequeueOvercommit
    BY <2>1, <2>2 DEF CounterTypes
  <2> QED BY <1>1, <2>1, <2>2, <2>3, FieldsStay
<1>3. ASSUME NEW c \in Consumers, Consumer(c)
      PROVE  CounterTypes' /\ \A d \in Consumers : TicketFields(d)'
  <2>1. CounterTypes' /\ TicketFields(c)' /\ dequeueOvercommit' >= dequeueOvercommit
    BY <1>1, <1>3, ConsumerFields
  <2>2. dequeueOvercommit' \in Nat
    BY <2>1 DEF CounterTypes
  <2>3. ASSUME NEW d \in Consumers, d # c PROVE TicketFields(d)'
    BY <1>1, <1>3, <2>1, <2>2, <2>3, FieldsStay, OthersStay
  <2> QED BY <2>1, <2>3
<1> QED BY <1>2, <1>3, NextCases

-----------------------------------------------------------------------------
(* Counting the tickets of one call and those of the others *)

Pending == {"recheck", "giveup", "claim"}

Apart == CounterTypes /\ (\A c \in Consumers : TicketFields(c)) /\ TicketsApart

OpenElse(c) == UNION {TicketsOf(d) : d \in {e \in Consumers : e # c /\ pc[e] = "recheck"}}
WonElse(c) ==
    UNION {WonBy(d) : d \in {e \in Consumers : e # c /\ pc[e] \in {"giveup", "claim"}}}
LostElse(c) ==
    UNION {TicketsOf(d) \ WonBy(d) : d \in {e \in Consumers : e # c /\ pc[e] = "giveup"}}
ElseBelow(c, n) == {t \in OpenElse(c) : t < n}

LEMMA IntervalCounts ==
  ASSUME NEW a \in Nat, NEW n \in Nat
  PROVE  IsFiniteSet(a .. a + n - 1) /\ Cardinality(a .. a + n - 1) = n
<1>1. a + n - 1 \in Int
  OBVIOUS
<1>2. Cardinality(a .. a + n - 1) = IF a > a + n - 1 THEN 0 ELSE a + n - 1 - a + 1
  BY <1>1, FS_Interval
<1> QED BY <1>1, <1>2, FS_Interval

LEMMA DisjointCounts ==
  ASSUME NEW S, NEW T, IsFiniteSet(S), IsFiniteSet(T), S \cap T = {}
  PROVE  /\ IsFiniteSet(S \cup T)
         /\ Cardinality(S \cup T) = Cardinality(S) + Cardinality(T)
         /\ Cardinality(S) \in Nat /\ Cardinality(T) \in Nat
  BY FS_Union, FS_EmptySet, FS_CardinalityType

\* What a call's tickets count for: those that won and the others.
LEMMA OwnCounts ==
  ASSUME Apart, NEW c \in Consumers, pc[c] \in Pending
  PROVE  /\ IsFiniteSet(TicketsOf(c)) /\ Cardinality(TicketsOf(c)) = ticket[c].desired
         /\ TicketsOf(c) \subseteq 0 .. dequeueOptimisticCount - 1
         /\ pc[c] # "recheck" =>
               /\ IsFiniteSet(WonBy(c)) /\ Cardinality(WonBy(c)) = ticket[c].actual
               /\ WonBy(c) \subseteq TicketsOf(c)
               /\ IsFiniteSet(TicketsOf(c) \ WonBy(c))
               /\ Cardinality(TicketsOf(c) \ WonBy(c)) = ticket[c].desired - ticket[c].actual
<1>1. /\ ticket[c].count \in Nat /\ ticket[c].desired \in Nat /\ ticket[c].actual \in Nat
  <2>1. ticket[c] \in AllTickets
    BY DEF Apart, CounterTypes
  <2> QED BY <2>1 DEF AllTickets
<1>2. IsFiniteSet(TicketsOf(c)) /\ Cardinality(TicketsOf(c)) = ticket[c].desired
  BY <1>1, IntervalCounts DEF TicketsOf
<1>3. TicketsOf(c) \subseteq 0 .. dequeueOptimisticCount - 1
  BY DEF Apart, TicketsApart, Pending
<1>4. ASSUME pc[c] # "recheck"
      PROVE  /\ IsFiniteSet(WonBy(c)) /\ Cardinality(WonBy(c)) = ticket[c].actual
             /\ WonBy(c) \subseteq TicketsOf(c)
  <2>1. ticket[c].actual <= ticket[c].desired
    BY <1>4 DEF Apart, TicketFields, Pending
  <2>2. IsFiniteSet(WonBy(c)) /\ Cardinality(WonBy(c)) = ticket[c].actual
    BY <1>1, IntervalCounts DEF WonBy
  <2>3. WonBy(c) \subseteq TicketsOf(c)
    BY <1>1, <2>1 DEF WonBy, TicketsOf
  <2> QED BY <2>2, <2>3
<1>5. ASSUME pc[c] # "recheck"
      PROVE  /\ IsFiniteSet(TicketsOf(c) \ WonBy(c))
             /\ Cardinality(TicketsOf(c) \ WonBy(c)) = ticket[c].desired - ticket[c].actual
  <2>1. IsFiniteSet(TicketsOf(c) \ WonBy(c))
    BY <1>2, FS_Subset
  <2>2. /\ (TicketsOf(c) \ WonBy(c)) \cap WonBy(c) = {}
        /\ (TicketsOf(c) \ WonBy(c)) \cup WonBy(c) = TicketsOf(c)
    BY <1>4, <1>5
  <2>3. Cardinality(TicketsOf(c)) = Cardinality(TicketsOf(c) \ WonBy(c))
                                    + Cardinality(WonBy(c))
        /\ Cardinality(TicketsOf(c) \ WonBy(c)) \in Nat
    BY <1>4, <1>5, <2>1, <2>2, DisjointCounts
  <2> QED BY <1>1, <1>2, <1>4, <1>5, <2>1, <2>3
<1> QED BY <1>2, <1>3, <1>4, <1>5

LEMMA ElseCounts ==
  ASSUME Apart, NEW c \in Consumers
  PROVE  /\ IsFiniteSet(OpenElse(c)) /\ IsFiniteSet(WonElse(c)) /\ IsFiniteSet(LostElse(c))
         /\ Cardinality(OpenElse(c)) \in Nat /\ Cardinality(WonElse(c)) \in Nat
         /\ Cardinality(LostElse(c)) \in Nat
         /\ OpenElse(c) \subseteq 0 .. dequeueOptimisticCount - 1
         /\ \A n \in Nat : /\ IsFiniteSet(ElseBelow(c, n))
                           /\ Cardinality(ElseBelow(c, n)) \in Nat
                           /\ Cardinality(ElseBelow(c, n)) <= Cardinality(OpenElse(c))
<1> DEFINE All == 0 .. dequeueOptimisticCount - 1
<1>1. IsFiniteSet(All)
  BY FS_Interval DEF Apart, CounterTypes
<1>2. \A d \in Consumers : pc[d] \in Pending =>
         /\ TicketsOf(d) \subseteq All
         /\ pc[d] # "recheck" => WonBy(d) \subseteq All
  BY OwnCounts
<1> HIDE DEF All
<1>3. OpenElse(c) \subseteq All
  BY <1>2 DEF OpenElse, Pending
<1>4. WonElse(c) \subseteq All
  BY <1>2 DEF WonElse, Pending
<1>5. LostElse(c) \subseteq All
  BY <1>2 DEF LostElse, Pending
<1>6. \A n \in Nat : ElseBelow(c, n) \subseteq OpenElse(c)
  BY DEF ElseBelow
<1>7. IsFiniteSet(OpenElse(c)) /\ IsFiniteSet(WonElse(c)) /\ IsFiniteSet(LostElse(c))
  BY <1>1, <1>3, <1>4, <1>5, FS_Subset
<1> QED BY <1>3, <1>6, <1>7, FS_Subset, FS_CardinalityType DEF All

\* A call's own share of each count.
Split(c) ==
    /\ Cardinality(Open) =
          Cardinality(OpenElse(c)) + IF pc[c] = "recheck" THEN ticket[c].desired ELSE 0
    /\ Cardinality(Won) =
          Cardinality(WonElse(c))
             + IF pc[c] \in {"giveup", "claim"} THEN ticket[c].actual ELSE 0
    /\ Cardinality(Lost) =
          Cardinality(LostElse(c))
             + IF pc[c] = "giveup" THEN ticket[c].desired - ticket[c].actual ELSE 0
    /\ \A n \in Nat :
          /\ pc[c] # "recheck" \/ n <= ticket[c].count =>
                Cardinality(OpenBelow(n)) = Cardinality(ElseBelow(c, n))
          /\ pc[c] = "recheck" /\ n >= ticket[c].count + ticket[c].desired =>
                Cardinality(OpenBelow(n)) = Cardinality(ElseBelow(c, n)) + ticket[c].desired

LEMMA Splits == ASSUME Apart, NEW c \in Consumers PROVE Split(c)
<1>0. /\ ticket[c].count \in Nat /\ ticket[c].desired \in Nat
  <2>1. ticket[c] \in AllTickets
    BY DEF Apart, CounterTypes
  <2> QED BY <2>1 DEF AllTickets
<1>1. ASSUME NEW d \in Consumers, d # c, pc[d] \in Pending, pc[c] \in Pending
      PROVE  TicketsOf(c) \cap TicketsOf(d) = {}
  BY <1>1 DEF Apart, TicketsApart, Pending
<1>2. Cardinality(Open) =
          Cardinality(OpenElse(c)) + IF pc[c] = "recheck" THEN ticket[c].desired ELSE 0
  <2>1. CASE pc[c] # "recheck"
    <3>1. Open = OpenElse(c)
      BY <2>1 DEF Open, OpenElse
    <3> QED BY <2>1, <3>1, ElseCounts
  <2>2. CASE pc[c] = "recheck"
    <3>1. Open = OpenElse(c) \cup TicketsOf(c)
      BY <2>2 DEF Open, OpenElse
    <3>2. OpenElse(c) \cap TicketsOf(c) = {}
      BY <1>1, <2>2 DEF OpenElse, Pending
    <3>3. IsFiniteSet(TicketsOf(c)) /\ Cardinality(TicketsOf(c)) = ticket[c].desired
      BY <2>2, OwnCounts DEF Pending
    <3>4. Cardinality(Open) = Cardinality(OpenElse(c)) + Cardinality(TicketsOf(c))
      BY <3>1, <3>2, <3>3, ElseCounts, DisjointCounts
    <3> QED BY <2>2, <3>3, <3>4
  <2> QED BY <2>1, <2>2
<1>3. Cardinality(Won) =
          Cardinality(WonElse(c))
             + IF pc[c] \in {"giveup", "claim"} THEN ticket[c].actual ELSE 0
  <2>1. CASE pc[c] \notin {"giveup", "claim"}
    <3>1. Won = WonElse(c)
      BY <2>1 DEF Won, WonElse
    <3> QED BY <2>1, <3>1, ElseCounts
  <2>2. CASE pc[c] \in {"giveup", "claim"}
    <3>1. Won = WonElse(c) \cup WonBy(c)
      BY <2>2 DEF Won, WonElse
    <3>2. \A d \in Consumers : pc[d] \in {"giveup", "claim"} => WonBy(d) \subseteq TicketsOf(d)
      BY OwnCounts DEF Pending
    <3>3. WonElse(c) \cap WonBy(c) = {}
      BY <1>1, <2>2, <3>2 DEF WonElse, Pending
    <3>4. IsFiniteSet(WonBy(c)) /\ Cardinality(WonBy(c)) = ticket[c].actual
      BY <2>2, OwnCounts DEF Pending
    <3>5. Cardinality(Won) = Cardinality(WonElse(c)) + Cardinality(WonBy(c))
      BY <3>1, <3>3, <3>4, ElseCounts, DisjointCounts
    <3> QED BY <2>2, <3>4, <3>5
  <2> QED BY <2>1, <2>2
<1>4. Cardinality(Lost) =
          Cardinality(LostElse(c))
             + IF pc[c] = "giveup" THEN ticket[c].desired - ticket[c].actual ELSE 0
  <2>1. CASE pc[c] # "giveup"
    <3>1. Lost = LostElse(c)
      BY <2>1 DEF Lost, LostElse
    <3> QED BY <2>1, <3>1, ElseCounts
  <2>2. CASE pc[c] = "giveup"
    <3> DEFINE Mine == TicketsOf(c) \ WonBy(c)
    <3>1. Lost = LostElse(c) \cup Mine
      BY <2>2 DEF Lost, LostElse
    <3>2. LostElse(c) \cap Mine = {}
      BY <1>1, <2>2 DEF LostElse, Pending
    <3>3. IsFiniteSet(Mine) /\ Cardinality(Mine) = ticket[c].desired - ticket[c].actual
      BY <2>2, OwnCounts DEF Pending
    <3> HIDE DEF Mine
    <3>4. Cardinality(Lost) = Cardinality(LostElse(c)) + Cardinality(Mine)
      BY <3>1, <3>2, <3>3, ElseCounts, DisjointCounts
    <3> QED BY <2>2, <3>3, <3>4
  <2> QED BY <2>1, <2>2
<1>5. ASSUME NEW n \in Nat, pc[c] # "recheck" \/ n <= ticket[c].count
      PROVE  Cardinality(OpenBelow(n)) = Cardinality(ElseBelow(c, n))
  <2>1. CASE pc[c] # "recheck"
    <3>1. Open = OpenElse(c)
      BY <2>1 DEF Open, OpenElse
    <3> QED BY <3>1 DEF OpenBelow, ElseBelow
  <2>2. CASE pc[c] = "recheck" /\ n <= ticket[c].count
    <3>1. Open = OpenElse(c) \cup TicketsOf(c)
      BY <2>2 DEF Open, OpenElse
    <3>2. \A t \in TicketsOf(c) : ~(t < n)
      BY <1>0, <2>2 DEF TicketsOf
    <3>3. OpenBelow(n) = ElseBelow(c, n)
      BY <3>1, <3>2 DEF OpenBelow, ElseBelow
    <3> QED BY <3>3
  <2> QED BY <1>5, <2>1, <2>2
<1>6. ASSUME NEW n \in Nat, pc[c] = "recheck", n >= ticket[c].count + ticket[c].desired
      PROVE  Cardinality(OpenBelow(n)) = Cardinality(ElseBelow(c, n)) + ticket[c].desired
  <2>1. Open = OpenElse(c) \cup TicketsOf(c)
    BY <1>6 DEF Open, OpenElse
  <2>2. \A t \in TicketsOf(c) : t < n
    BY <1>0, <1>6 DEF TicketsOf
  <2>3. OpenBelow(n) = ElseBelow(c, n) \cup TicketsOf(c)
    BY <2>1, <2>2 DEF OpenBelow, ElseBelow
  <2>4. ElseBelow(c, n) \cap TicketsOf(c) = {}
    BY <1>1, <1>6 DEF ElseBelow, OpenElse, Pending
  <2>5. IsFiniteSet(TicketsOf(c)) /\ Cardinality(TicketsOf(c)) = ticket[c].desired
    BY <1>6, OwnCounts DEF Pending
  <2>6. IsFiniteSet(ElseBelow(c, n))
    BY ElseCounts
  <2> QED BY <2>3, <2>4, <2>5, <2>6, DisjointCounts
<1> HIDE DEF Split
<1> QED BY <1>2, <1>3, <1>4, <1>5, <1>6 DEF Split

AllSplit == \A c \in Consumers : Split(c)

LEMMA ApartSplits == Apart => AllSplit
  BY Splits DEF AllSplit

LEMMA ElseStays ==
  ASSUME NEW c \in Consumers, \A d \in Consumers : d # c => pc'[d] = pc[d] /\ ticket'[d] = ticket[d]
  PROVE  /\ OpenElse(c)' = OpenElse(c) /\ WonElse(c)' = WonElse(c)
         /\ LostElse(c)' = LostElse(c)
         /\ \A n \in Nat : ElseBelow(c, n)' = ElseBelow(c, n)
<1>1. \A d \in Consumers : d # c => TicketsOf(d)' = TicketsOf(d) /\ WonBy(d)' = WonBy(d)
  BY DEF TicketsOf, WonBy
<1>2. OpenElse(c)' = OpenElse(c)
  BY <1>1 DEF OpenElse
<1>3. WonElse(c)' = WonElse(c)
  BY <1>1 DEF WonElse
<1>4. LostElse(c)' = LostElse(c)
  BY <1>1 DEF LostElse
<1> QED BY <1>2, <1>3, <1>4 DEF ElseBelow

-----------------------------------------------------------------------------
(* The invariant of the tickets *)

LEMMA InitTickets == Init => TicketInv
<1> SUFFICES ASSUME Init PROVE TicketInv
  OBVIOUS
<1>1. \A c \in Consumers : pc[c] = "idle" /\ ticket[c] = NoTicket
  BY DEF Init
<1>2. \A c \in Consumers : TicketFields(c)
  BY <1>1, NoTicketIs DEF TicketFields
<1>3. TicketsApart
  BY <1>1 DEF TicketsApart
<1>4. Open = {} /\ Won = {} /\ Lost = {}
  BY <1>1 DEF Open, Won, Lost
<1>5. \A n \in Nat : OpenBelow(n) = {}
  BY <1>4 DEF OpenBelow
<1>6. TicketsCounted
  BY <1>4, FS_EmptySet DEF TicketsCounted, Init
<1>7. Winnable(0)
  <2>1. Cardinality(Won) = 0 /\ Cardinality(OpenBelow(0)) = 0
    BY <1>4, <1>5, FS_EmptySet
  <2>2. headIndex = 0 /\ tailIndex = 0
    BY DEF Init
  <2> QED BY <1>1, <2>1, <2>2 DEF Winnable
<1>8. 0 \in 0 .. dequeueOptimisticCount
  BY DEF Init
<1> QED BY <1>2, <1>3, <1>6, <1>7, <1>8 DEF TicketInv

LEMMA TicketsOfOthers ==
  ASSUME NEW c \in Consumers, NEW d \in Consumers, ticket'[d] = ticket[d]
  PROVE  TicketsOf(d)' = TicketsOf(d) /\ WonBy(d)' = WonBy(d)
  BY DEF TicketsOf, WonBy

\* The tickets a call takes are no other's.
LEMMA StepApart ==
  ASSUME TypeOK, TicketInv, Next
  PROVE  TicketsApart'
<1>0. /\ \A e \in Consumers : TicketFields(e)
      /\ TicketsApart
  BY DEF TicketInv
<1>1. CounterTypes /\ CounterTypes'
  BY StepFields, TypesOfCounters
<1>2. CASE UNCHANGED <<pc, ticket, dequeueOptimisticCount>>
  <2>1. \A d \in Consumers : TicketsOf(d)' = TicketsOf(d)
    BY <1>2 DEF TicketsOf
  <2> QED BY <1>0, <1>2, <2>1 DEF TicketsApart
<1>3. ASSUME NEW c \in Consumers, Consumer(c)
      PROVE  TicketsApart'
  <2>1. \A d \in Consumers : d # c => pc'[d] = pc[d] /\ ticket'[d] = ticket[d]
    BY <1>3, OthersStay
  <2>2. \A d \in Consumers : d # c => TicketsOf(d)' = TicketsOf(d)
    BY <2>1 DEF TicketsOf
  <2>3. CASE TakeTickets(c)
    <3>1. PICK t \in AllTickets :
             /\ ticket' = [ticket EXCEPT ![c] = t]
             /\ t.count = dequeueOptimisticCount /\ t.desired = ticket[c].desired
      BY <2>3, TakeDoes
    <3>2. dequeueOptimisticCount' = dequeueOptimisticCount + ticket[c].desired
      BY <2>3, TakeDoes
    <3>3. ticket[c].desired \in Nat /\ dequeueOptimisticCount \in Nat
      BY <1>1, TicketFieldTypes DEF CounterTypes
    <3>4. ticket'[c] = t
      BY <1>1, <3>1 DEF CounterTypes
    <3>5. TicketsOf(c)' = dequeueOptimisticCount .. dequeueOptimisticCount' - 1
      BY <3>1, <3>2, <3>3, <3>4 DEF TicketsOf
    <3>6. ASSUME NEW d \in Consumers, d # c, pc[d] \in Pending
          PROVE  /\ TicketsOf(d)' \subseteq 0 .. dequeueOptimisticCount - 1
                 /\ TicketsOf(d)' \subseteq 0 .. dequeueOptimisticCount' - 1
      <4>1. TicketsOf(d)' \subseteq 0 .. dequeueOptimisticCount - 1
        BY <1>0, <2>2, <3>6 DEF TicketsApart, Pending
      <4> QED BY <3>2, <3>3, <4>1
    <3>7. ASSUME NEW d \in Consumers, d # c, pc[d] \in Pending
          PROVE  TicketsOf(c)' \cap TicketsOf(d)' = {}
      BY <3>3, <3>5, <3>6, <3>7
    <3>8. TicketsOf(c)' \subseteq 0 .. dequeueOptimisticCount' - 1
      BY <3>3, <3>5
    <3>9. ASSUME NEW d \in Consumers, NEW e \in Consumers, d # e, d # c, e # c,
                 pc[d] \in Pending, pc[e] \in Pending
          PROVE  TicketsOf(d)' \cap TicketsOf(e)' = {}
      BY <1>0, <2>2, <3>9 DEF TicketsApart, Pending
    <3> QED BY <2>1, <3>6, <3>7, <3>8, <3>9 DEF TicketsApart, Pending
  <2>4. CASE ~TakeTickets(c)
    <3>1. dequeueOptimisticCount' = dequeueOptimisticCount
      BY <1>3, <2>4, ConsumerCases, QuietSteps, GiveUpDoes, ClaimDoes DEF counters
    <3>2. pc'[c] \in Pending => pc[c] \in Pending /\ TicketsOf(c)' = TicketsOf(c)
      <4> USE DEF Pending
      <4>0. pc \in [Consumers -> Places] /\ ticket \in [Consumers -> AllTickets]
        BY <1>1 DEF CounterTypes
      <4>1. CASE \E n \in TakeSizes : LoadTail(c, n)
        BY <4>0, <4>1, LoadTailDoes
      <4>2. CASE LoadOvercommit(c)
        BY <4>0, <4>2, LoadOvercommitDoes
      <4>3. CASE CheckAvailable(c)
        <5>1. pc'[c] = "idle" \/ pc'[c] = "ticket"
          BY <4>0, <4>3 DEF CheckAvailable, Goto
        <5> QED BY <5>1
      <4>4. CASE Recheck(c)
        <5>1. pc[c] = "recheck" /\ ticket[c].desired > 0
          BY <1>0, <4>4 DEF Recheck, Goto, TicketFields
        <5>2. PICK t \in AllTickets : /\ ticket' = [ticket EXCEPT ![c] = t]
                                      /\ t.count = ticket[c].count
                                      /\ t.desired = ticket[c].desired
          BY <4>4, <5>1, RecheckDoes
        <5>3. ticket'[c] = t
          BY <4>0, <5>2
        <5> QED BY <5>1, <5>2, <5>3 DEF TicketsOf
      <4>5. CASE GiveUp(c)
        <5>1. pc[c] = "giveup" /\ (pc'[c] = "idle" \/ ticket' = ticket)
          BY <4>0, <4>5, GiveUpDoes
        <5> QED BY <5>1 DEF TicketsOf
      <4>6. CASE Claim(c)
        <5>1. pc' = [pc EXCEPT ![c] = "front"]
          BY <4>6, ClaimDoes
        <5> QED BY <4>0, <5>1
      <4>7. CASE Handles(c)
        <5>1. \E to \in HandPlaces \cup {"idle"} : pc' = [pc EXCEPT ![c] = to]
          BY <4>7, HandDoes
        <5> QED BY <4>0, <5>1 DEF HandPlaces
      <4> QED BY <1>3, <2>4, <4>1, <4>2, <4>3, <4>4, <4>5, <4>6, <4>7, HandleCases
    <3>3. \A d \in Consumers : pc'[d] \in Pending =>
             pc[d] \in Pending /\ TicketsOf(d)' = TicketsOf(d)
      BY <2>1, <2>2, <3>2
    <3> QED BY <1>0, <3>1, <3>3 DEF TicketsApart, Pending
  <2> QED BY <2>3, <2>4
<1>4. CASE Producer \/ Others \/ Destroy
  <2>1. UNCHANGED <<pc, ticket, dequeueOptimisticCount>>
    BY <1>4, ConsumersStay
  <2> QED BY <1>2, <2>1
<1> QED BY <1>3, <1>4, NextCases

\* A call of dequeue moves its share of the counts from one to the next.
LEMMA StepCounted ==
  ASSUME TypeOK, TicketInv, Next
  PROVE  TicketsCounted'
<1>0. /\ \A e \in Consumers : TicketFields(e)
      /\ TicketsApart /\ TicketsCounted
  BY DEF TicketInv
<1>1. CounterTypes /\ CounterTypes'
  BY StepFields, TypesOfCounters
<1>2. Apart /\ Apart'
  BY <1>0, <1>1, StepFields, StepApart DEF Apart
<1>3. CASE Producer \/ Others \/ Destroy
  <2>1. UNCHANGED <<pc, ticket, headIndex, dequeueOptimisticCount, dequeueOvercommit>>
    BY <1>3, ConsumersStay
  <2>2. Open' = Open /\ Won' = Won /\ Lost' = Lost
    BY <2>1 DEF Open, Won, Lost, TicketsOf, WonBy
  <2> QED BY <1>0, <2>1, <2>2 DEF TicketsCounted
<1>4. ASSUME NEW c \in Consumers, Consumer(c)
      PROVE  TicketsCounted'
  <2>1. Split(c) /\ Split(c)'
    <3>1. Apart' => AllSplit'
      BY ApartSplits, PTL
    <3> QED BY <1>2, <3>1, ApartSplits DEF AllSplit
  <2>2. /\ OpenElse(c)' = OpenElse(c) /\ WonElse(c)' = WonElse(c)
        /\ LostElse(c)' = LostElse(c)
    BY <1>4, OthersStay, ElseStays
  <2>3. PICK o \in Nat, w \in Nat, l \in Nat :
           /\ o = Cardinality(OpenElse(c)) /\ w = Cardinality(WonElse(c))
           /\ l = Cardinality(LostElse(c))
    BY <1>2, ElseCounts
  <2>4. headIndex + w + o + l + dequeueOvercommit
           + (IF pc[c] \in {"giveup", "claim"} THEN ticket[c].actual ELSE 0)
           + (IF pc[c] = "recheck" THEN ticket[c].desired ELSE 0)
           + (IF pc[c] = "giveup" THEN ticket[c].desired - ticket[c].actual ELSE 0)
        = dequeueOptimisticCount
    <3>1. headIndex + Cardinality(Won) + Cardinality(Open) + Cardinality(Lost)
             + dequeueOvercommit = dequeueOptimisticCount
      BY <1>0 DEF TicketsCounted
    <3>2. /\ Cardinality(Open) = o + IF pc[c] = "recheck" THEN ticket[c].desired ELSE 0
          /\ Cardinality(Won) =
                w + IF pc[c] \in {"giveup", "claim"} THEN ticket[c].actual ELSE 0
          /\ Cardinality(Lost) =
                l + IF pc[c] = "giveup" THEN ticket[c].desired - ticket[c].actual ELSE 0
      BY <2>1, <2>3 DEF Split
    <3>3. /\ headIndex \in Nat /\ dequeueOvercommit \in Nat
          /\ ticket[c].desired \in Nat /\ ticket[c].actual \in Nat
      BY <1>1, TicketFieldTypes DEF CounterTypes
    <3> QED BY <3>1, <3>2, <3>3
  <2>5. SUFFICES
          headIndex' + w + o + l + dequeueOvercommit'
           + (IF pc'[c] \in {"giveup", "claim"} THEN ticket'[c].actual ELSE 0)
           + (IF pc'[c] = "recheck" THEN ticket'[c].desired ELSE 0)
           + (IF pc'[c] = "giveup" THEN ticket'[c].desired - ticket'[c].actual ELSE 0)
          = dequeueOptimisticCount'
    <3>1. /\ Cardinality(Open') = o + IF pc'[c] = "recheck" THEN ticket'[c].desired ELSE 0
          /\ Cardinality(Won') =
                w + IF pc'[c] \in {"giveup", "claim"} THEN ticket'[c].actual ELSE 0
          /\ Cardinality(Lost') =
                l + IF pc'[c] = "giveup" THEN ticket'[c].desired - ticket'[c].actual ELSE 0
      BY <2>1, <2>2, <2>3 DEF Split
    <3>2. /\ headIndex' \in Nat /\ dequeueOvercommit' \in Nat
          /\ ticket'[c].desired \in Nat /\ ticket'[c].actual \in Nat
      <4>1. ticket'[c] \in AllTickets /\ headIndex' \in Nat /\ dequeueOvercommit' \in Nat
        BY <1>1 DEF CounterTypes
      <4> QED BY <4>1 DEF AllTickets
    <3> QED BY <3>1, <3>2 DEF TicketsCounted
  <2>6. /\ headIndex \in Nat /\ dequeueOvercommit \in Nat /\ dequeueOptimisticCount \in Nat
        /\ ticket[c].desired \in Nat /\ ticket[c].actual \in Nat
        /\ pc \in [Consumers -> Places] /\ ticket \in [Consumers -> AllTickets]
    BY <1>1, TicketFieldTypes DEF CounterTypes
  <2>7. Quietly(c) => headIndex' = headIndex /\ dequeueOvercommit' = dequeueOvercommit
                      /\ dequeueOptimisticCount' = dequeueOptimisticCount
    BY QuietSteps DEF counters
  <2>8. CASE (\E n \in TakeSizes : LoadTail(c, n)) \/ LoadOvercommit(c)
             \/ CheckAvailable(c) \/ Handles(c)
    <3>1. Quietly(c)
      BY <2>8 DEF Quietly, Handles
    <3>2. pc[c] \notin Pending /\ pc'[c] \notin Pending
      <4> USE DEF Pending
      <4>1. CASE \E n \in TakeSizes : LoadTail(c, n)
        BY <2>6, <4>1, LoadTailDoes
      <4>2. CASE LoadOvercommit(c)
        BY <2>6, <4>2, LoadOvercommitDoes
      <4>3. CASE CheckAvailable(c)
        <5>1. pc[c] = "check" /\ (pc'[c] = "idle" \/ pc'[c] = "ticket")
          BY <2>6, <4>3 DEF CheckAvailable, Goto
        <5> QED BY <5>1
      <4>4. CASE Handles(c)
        <5>1. pc[c] \in HandPlaces /\ \E to \in HandPlaces \cup {"idle"} : pc' = [pc EXCEPT ![c] = to]
          BY <4>4, HandDoes
        <5> QED BY <2>6, <5>1 DEF HandPlaces
      <4> QED BY <2>8, <4>1, <4>2, <4>3, <4>4
    <3> QED BY <2>4, <2>7, <3>1, <3>2 DEF Pending
  <2>9. CASE TakeTickets(c)
    <3>1. PICK t \in AllTickets :
             /\ ticket' = [ticket EXCEPT ![c] = t]
             /\ t.desired = ticket[c].desired
      BY <2>9, TakeDoes
    <3>2. /\ pc[c] = "ticket" /\ pc'[c] = "recheck" /\ ticket'[c] = t
          /\ headIndex' = headIndex /\ dequeueOvercommit' = dequeueOvercommit
          /\ dequeueOptimisticCount' = dequeueOptimisticCount + ticket[c].desired
      BY <2>6, <2>9, <3>1, TakeDoes
    <3> QED BY <2>3, <2>4, <2>6, <3>1, <3>2
  <2>10. CASE Recheck(c)
    <3>0. pc[c] = "recheck" /\ ticket[c].desired > 0
      BY <1>0, <2>10 DEF Recheck, Goto, TicketFields
    <3>1. PICK t \in AllTickets :
             /\ ticket' = [ticket EXCEPT ![c] = t]
             /\ t.desired = ticket[c].desired /\ t.actual <= t.desired
             /\ pc' = [pc EXCEPT ![c] = IF t.actual < t.desired THEN "giveup" ELSE "claim"]
      BY <2>10, <3>0, RecheckDoes
    <3>2. ticket'[c] = t /\ t.actual \in Nat
          /\ pc'[c] = IF t.actual < t.desired THEN "giveup" ELSE "claim"
      BY <2>6, <3>1 DEF AllTickets
    <3>3. Quietly(c)
      BY <2>10 DEF Quietly
    <3> QED BY <2>3, <2>4, <2>6, <2>7, <3>0, <3>1, <3>2, <3>3
  <2>11. CASE GiveUp(c)
    <3>1. /\ pc[c] = "giveup" /\ headIndex' = headIndex
          /\ dequeueOptimisticCount' = dequeueOptimisticCount
          /\ dequeueOvercommit' = dequeueOvercommit + ticket[c].desired - ticket[c].actual
      BY <2>11, GiveUpDoes
    <3>2. \/ pc'[c] = "claim" /\ ticket' = ticket
          \/ ticket[c].actual = 0 /\ pc'[c] = "idle"
      BY <2>6, <2>11, GiveUpDoes
    <3>3. /\ headIndex + w + o + l + dequeueOvercommit + ticket[c].actual
             + (ticket[c].desired - ticket[c].actual) = dequeueOptimisticCount
      BY <2>3, <2>4, <2>6, <3>1
    <3>4. CASE pc'[c] = "claim" /\ ticket' = ticket
      BY <2>3, <2>6, <3>1, <3>3, <3>4
    <3>5. CASE ticket[c].actual = 0 /\ pc'[c] = "idle"
      BY <2>3, <2>6, <3>1, <3>3, <3>5
    <3> QED BY <3>2, <3>4, <3>5
  <2>12. CASE Claim(c)
    <3>1. /\ pc[c] = "claim" /\ pc'[c] = "front" /\ headIndex' = headIndex + ticket[c].actual
          /\ dequeueOptimisticCount' = dequeueOptimisticCount
          /\ dequeueOvercommit' = dequeueOvercommit
      BY <2>6, <2>12, ClaimDoes
    <3> QED BY <2>3, <2>4, <2>6, <3>1
  <2> QED BY <1>4, <2>8, <2>9, <2>10, <2>11, <2>12, HandleCases
<1> QED BY <1>3, <1>4, NextCases

\* When head and winners together, and the open tickets below each, stay the same.
LEMMA WinnableKept ==
  ASSUME NEW n \in Nat, Winnable(n), CounterTypes, CounterTypes',
         headIndex' + Cardinality(Won') = headIndex + Cardinality(Won),
         \A k \in Nat : Cardinality(OpenBelow(k)') = Cardinality(OpenBelow(k)),
         tailIndex' >= tailIndex,
         \A d \in Consumers : pc'[d] = "recheck" => pc[d] = "recheck" /\ ticket'[d] = ticket[d],
         headIndex + Cardinality(Won) + Cardinality(OpenBelow(n)) \in Int
  PROVE  Winnable(n)'
<1>1. headIndex' + Cardinality(Won') + Cardinality(OpenBelow(n)') <= tailIndex'
  BY DEF Winnable, CounterTypes
<1>2. ASSUME NEW c \in Consumers, pc'[c] = "recheck"
      PROVE  \/ ticket'[c].count + ticket'[c].desired <= n
             \/ /\ n <= ticket'[c].count
                /\ headIndex' + Cardinality(Won')
                      + Cardinality({t \in Open' : t < ticket'[c].count})
                     <= ticket'[c].count - ticket'[c].overcommit
  <2>1. pc[c] = "recheck" /\ ticket'[c] = ticket[c]
    BY <1>2
  <2>2. ticket[c].count \in Nat
    <3>1. ticket[c] \in AllTickets
      BY DEF CounterTypes
    <3> QED BY <3>1 DEF AllTickets
  <2>3. PICK k \in Nat : k = ticket[c].count
    BY <2>2
  <2>4. Cardinality({t \in Open' : t < k}) = Cardinality(OpenBelow(k))
    BY DEF OpenBelow
  <2>5. \/ k + ticket[c].desired <= n
        \/ /\ n <= k
           /\ headIndex + Cardinality(Won) + Cardinality(OpenBelow(k))
                 <= k - ticket[c].overcommit
    BY <2>1, <2>3 DEF Winnable
  <2> QED BY <2>1, <2>3, <2>4, <2>5
<1> QED BY <1>1, <1>2 DEF Winnable, OpenBelow

LEMMA IntervalsApart ==
  ASSUME NEW a \in Nat, NEW n \in Nat, NEW b \in Nat, NEW m \in Nat, n > 0, m > 0,
         (a .. a + n - 1) \cap (b .. b + m - 1) = {}
  PROVE  a + n <= b \/ b + m <= a
<1>1. a \in a .. a + n - 1 /\ b \in b .. b + m - 1
  OBVIOUS
<1>2. a \notin b .. b + m - 1 /\ b \notin a .. a + n - 1
  BY <1>1
<1> QED BY <1>2

LEMMA AllBelow ==
  ASSUME Apart, NEW c \in Consumers, NEW n \in Nat, n >= dequeueOptimisticCount
  PROVE  ElseBelow(c, n) = OpenElse(c)
<1>1. OpenElse(c) \subseteq 0 .. dequeueOptimisticCount - 1
  BY ElseCounts
<1>2. \A t \in 0 .. dequeueOptimisticCount - 1 : t < n
  BY DEF Apart, CounterTypes
<1> QED BY <1>1, <1>2 DEF ElseBelow

\* No other call has a ticket among those of this one.
LEMMA NoneBetween ==
  ASSUME Apart, NEW c \in Consumers, pc[c] \in Pending, NEW a \in Nat,
         a <= ticket[c].desired
  PROVE  ElseBelow(c, ticket[c].count + a) = ElseBelow(c, ticket[c].count)
<1>0. ticket[c].count \in Nat /\ ticket[c].desired \in Nat
  <2>1. ticket[c] \in AllTickets
    BY DEF Apart, CounterTypes
  <2> QED BY <2>1 DEF AllTickets
<1>1. OpenElse(c) \subseteq Int
  BY ElseCounts
<1>2. OpenElse(c) \cap TicketsOf(c) = {}
  BY DEF OpenElse, Apart, TicketsApart, Pending
<1>3. ASSUME NEW t \in OpenElse(c), t < ticket[c].count + a PROVE t < ticket[c].count
  BY <1>0, <1>1, <1>2, <1>3 DEF TicketsOf
<1>4. ASSUME NEW t \in OpenElse(c), t < ticket[c].count PROVE t < ticket[c].count + a
  BY <1>0, <1>1, <1>4
<1> QED BY <1>3, <1>4 DEF ElseBelow

LEMMA PendingFields ==
  ASSUME Apart, NEW d \in Consumers, pc[d] = "recheck"
  PROVE  /\ ticket[d].count \in Nat /\ ticket[d].desired \in Nat /\ ticket[d].overcommit \in Nat
         /\ ticket[d].desired > 0
         /\ ticket[d].count + ticket[d].desired <= dequeueOptimisticCount
<1>1. ticket[d] \in AllTickets /\ dequeueOptimisticCount \in Nat /\ TicketFields(d)
  BY DEF Apart, CounterTypes
<1>2. ticket[d].desired > 0
  BY <1>1 DEF TicketFields
<1>3. TicketsOf(d) \subseteq 0 .. dequeueOptimisticCount - 1
  BY OwnCounts DEF Pending
<1>4. /\ ticket[d].count \in Nat /\ ticket[d].desired \in Nat /\ ticket[d].overcommit \in Nat
  BY <1>1 DEF AllTickets
<1>5. ticket[d].count + ticket[d].desired - 1 \in TicketsOf(d)
  BY <1>2, <1>4 DEF TicketsOf
<1> QED BY <1>1, <1>2, <1>3, <1>4, <1>5

\* A call that takes tickets has seen an overcommit that is not above the present.
LEMMA TakeWinnable ==
  ASSUME TypeOK, TicketInv, NEW c \in Consumers, TakeTickets(c), Apart, Apart',
         NEW n \in 0 .. dequeueOptimisticCount, Winnable(n)
  PROVE  Winnable(n)'
<1>0. /\ TicketsCounted /\ TicketFields(c)
      /\ n \in Nat
  BY DEF TicketInv, Apart, CounterTypes
<1>1. /\ pc \in [Consumers -> Places] /\ ticket \in [Consumers -> AllTickets]
      /\ headIndex \in Nat /\ tailIndex \in Nat /\ dequeueOptimisticCount \in Nat
      /\ dequeueOvercommit \in Nat
  BY DEF Apart, CounterTypes
<1>2. PICK t \in AllTickets :
         /\ ticket' = [ticket EXCEPT ![c] = t]
         /\ t.count = dequeueOptimisticCount /\ t.desired = ticket[c].desired
         /\ t.overcommit = ticket[c].overcommit
  BY TakeDoes
<1>3. /\ pc[c] = "ticket" /\ pc' = [pc EXCEPT ![c] = "recheck"]
      /\ headIndex' = headIndex /\ tailIndex' = tailIndex
  BY TakeDoes, ProducerStays DEF Consumer
<1>4. Split(c) /\ Split(c)'
  <2>1. Apart' => AllSplit'
    BY ApartSplits, PTL
  <2> QED BY <2>1, ApartSplits DEF AllSplit
<1>5. \A d \in Consumers : d # c => pc'[d] = pc[d] /\ ticket'[d] = ticket[d]
  BY <1>1, <1>2, <1>3
<1>6. /\ WonElse(c)' = WonElse(c)
      /\ \A k \in Nat : ElseBelow(c, k)' = ElseBelow(c, k)
  BY <1>5, ElseStays
<1>7. Cardinality(Won') = Cardinality(Won) /\ Cardinality(Won) \in Nat
  <2>1. Cardinality(Won) = Cardinality(WonElse(c)) + 0
    BY <1>3, <1>4 DEF Split
  <2>2. Cardinality(Won') = Cardinality(WonElse(c)) + 0
    <3>1. pc'[c] = "recheck"
      BY <1>1, <1>3
    <3> QED BY <1>4, <1>6, <3>1 DEF Split
  <2> QED BY <2>1, <2>2, ElseCounts
<1>8. ticket'[c] = t /\ pc'[c] = "recheck"
  BY <1>1, <1>2, <1>3
<1>9. ASSUME NEW k \in Nat, k <= dequeueOptimisticCount
      PROVE  Cardinality({x \in Open' : x < k}) = Cardinality(OpenBelow(k))
  <2>1. Cardinality(OpenBelow(k)) = Cardinality(ElseBelow(c, k))
    BY <1>3, <1>4 DEF Split
  <2>2. Cardinality(OpenBelow(k)') = Cardinality(ElseBelow(c, k)')
    BY <1>2, <1>4, <1>8, <1>9 DEF Split
  <2>3. OpenBelow(k)' = {x \in Open' : x < k}
    BY DEF OpenBelow
  <2> QED BY <1>6, <2>1, <2>2, <2>3
<1>10. headIndex' + Cardinality(Won') + Cardinality({x \in Open' : x < n}) <= tailIndex'
  BY <1>0, <1>1, <1>3, <1>7, <1>9 DEF Winnable
<1>11. ASSUME NEW d \in Consumers, pc'[d] = "recheck"
       PROVE  \/ ticket'[d].count + ticket'[d].desired <= n
              \/ /\ n <= ticket'[d].count
                 /\ headIndex' + Cardinality(Won')
                      + Cardinality({x \in Open' : x < ticket'[d].count})
                      <= ticket'[d].count - ticket'[d].overcommit
  <2>1. CASE d # c
    <3>1. pc[d] = "recheck" /\ ticket'[d] = ticket[d]
      BY <1>5, <1>11, <2>1
    <3>2. PICK k \in Nat : k = ticket[d].count /\ k <= dequeueOptimisticCount
      BY <1>1, <3>1, PendingFields
    <3>3. \/ k + ticket[d].desired <= n
          \/ /\ n <= k
             /\ headIndex + Cardinality(Won) + Cardinality(OpenBelow(k))
                   <= k - ticket[d].overcommit
      BY <3>1, <3>2 DEF Winnable
    <3> QED BY <1>3, <1>7, <1>9, <3>1, <3>2, <3>3
  <2>2. CASE d = c
    <3>1. PICK k \in Nat : k = dequeueOptimisticCount
      BY <1>1
    <3>2. Cardinality({x \in Open' : x < k}) = Cardinality(Open)
      <4>1. Cardinality(OpenBelow(k)) = Cardinality(ElseBelow(c, k))
        BY <1>3, <1>4 DEF Split
      <4>2. Cardinality(Open) = Cardinality(OpenElse(c)) + 0
        BY <1>3, <1>4 DEF Split
      <4>3. ElseBelow(c, k) = OpenElse(c)
        BY <3>1, AllBelow
      <4> QED BY <1>9, <3>1, <4>1, <4>2, <4>3, ElseCounts
    <3>3. headIndex + Cardinality(Won) + Cardinality(Open) <= k - dequeueOvercommit
      <4>1. Cardinality(Lost) \in Nat
        <5>1. Cardinality(Lost) = Cardinality(LostElse(c)) + 0
          BY <1>3, <1>4 DEF Split
        <5> QED BY <5>1, ElseCounts
      <4>2. Cardinality(Open) \in Nat
        <5>1. Cardinality(Open) = Cardinality(OpenElse(c)) + 0
          BY <1>3, <1>4 DEF Split
        <5> QED BY <5>1, ElseCounts
      <4> QED BY <1>0, <1>1, <1>7, <3>1, <4>1, <4>2 DEF TicketsCounted
    <3>4. ticket[c].overcommit <= dequeueOvercommit /\ ticket[c].overcommit \in Nat
      BY <1>0, <1>3, TicketFieldTypes DEF TicketFields
    <3>5. Cardinality(Open) \in Nat
      <4>1. Cardinality(Open) = Cardinality(OpenElse(c)) + 0
        BY <1>3, <1>4 DEF Split
      <4> QED BY <4>1, ElseCounts
    <3>6. /\ ticket'[d].count = k /\ ticket'[d].overcommit = ticket[c].overcommit
          /\ n <= k
      BY <1>1, <1>2, <1>8, <2>2, <3>1
    <3>7. headIndex + Cardinality(Won) + Cardinality(Open) <= k - ticket[c].overcommit
      BY <1>1, <1>7, <3>3, <3>4, <3>5
    <3> QED BY <1>3, <1>7, <3>2, <3>6, <3>7
  <2> QED BY <2>1, <2>2
<1> QED BY <1>10, <1>11 DEF Winnable, OpenBelow

\* The tickets a call wins leave room for all that may still win before them.
LEMMA RecheckWinnable ==
  ASSUME TypeOK, NEW c \in Consumers, Recheck(c), Apart, Apart',
         NEW m \in 0 .. dequeueOptimisticCount, Winnable(m)
  PROVE  \E n \in 0 .. dequeueOptimisticCount : Winnable(n)'
<1>1. /\ pc \in [Consumers -> Places] /\ ticket \in [Consumers -> AllTickets]
      /\ headIndex \in Nat /\ tailIndex \in Nat /\ dequeueOptimisticCount \in Nat
      /\ m \in Nat
  BY DEF Apart, CounterTypes
<1>2. pc[c] = "recheck"
  BY DEF Recheck, Goto
<1>3. PICK k \in Nat, s \in Nat, v \in Nat :
         /\ k = ticket[c].count /\ s = ticket[c].desired /\ v = ticket[c].overcommit
         /\ s > 0 /\ k + s <= dequeueOptimisticCount
  BY <1>2, PendingFields
<1>4. PICK t \in AllTickets :
         /\ ticket' = [ticket EXCEPT ![c] = t]
         /\ t.count = k /\ t.desired = s /\ t.actual <= s
         /\ t.actual > 0 => t.actual <= tailIndex - (k - v)
         /\ pc' = [pc EXCEPT ![c] = IF t.actual < s THEN "giveup" ELSE "claim"]
  BY <1>3, RecheckDoes
<1>5. PICK a \in Nat : a = t.actual
  BY DEF AllTickets
<1>6. headIndex' = headIndex /\ tailIndex' = tailIndex
  BY QuietSteps DEF Quietly, counters
<1>7. /\ ticket'[c] = t /\ pc'[c] \in {"giveup", "claim"}
      /\ \A d \in Consumers : d # c => pc'[d] = pc[d] /\ ticket'[d] = ticket[d]
  BY <1>1, <1>4
<1>8. Split(c) /\ Split(c)'
  <2>1. Apart' => AllSplit'
    BY ApartSplits, PTL
  <2> QED BY <2>1, ApartSplits DEF AllSplit
<1>9. /\ WonElse(c)' = WonElse(c)
      /\ \A j \in Nat : ElseBelow(c, j)' = ElseBelow(c, j)
  BY <1>7, ElseStays
<1>10. PICK w \in Nat : w = Cardinality(WonElse(c))
  BY ElseCounts
<1>11. Cardinality(Won) = w /\ Cardinality(Won') = w + a
  <2>1. Cardinality(Won) = w + 0
    BY <1>2, <1>8, <1>10 DEF Split
  <2>2. Cardinality(Won') = w + a
    BY <1>5, <1>7, <1>8, <1>9, <1>10 DEF Split
  <2> QED BY <2>1, <2>2
<1>12. ASSUME NEW j \in Nat
       PROVE  /\ Cardinality(ElseBelow(c, j)) \in Nat
              /\ Cardinality({x \in Open' : x < j}) = Cardinality(ElseBelow(c, j))
              /\ j <= k => Cardinality(OpenBelow(j)) = Cardinality(ElseBelow(c, j))
              /\ j >= k + s => Cardinality(OpenBelow(j)) = Cardinality(ElseBelow(c, j)) + s
  <2>1. OpenBelow(j)' = {x \in Open' : x < j}
    BY DEF OpenBelow
  <2>2. Cardinality(OpenBelow(j)') = Cardinality(ElseBelow(c, j)')
    BY <1>7, <1>8 DEF Split
  <2>3. Cardinality(ElseBelow(c, j)) \in Nat
    BY ElseCounts
  <2>4. /\ j <= k => Cardinality(OpenBelow(j)) = Cardinality(ElseBelow(c, j))
        /\ j >= k + s => Cardinality(OpenBelow(j)) = Cardinality(ElseBelow(c, j)) + s
    BY <1>2, <1>3, <1>8 DEF Split
  <2> QED BY <1>9, <2>1, <2>2, <2>3, <2>4
\* Another open call's tickets are all before or all after these.
<1>13. ASSUME NEW d \in Consumers, pc'[d] = "recheck"
       PROVE  \E kd \in Nat, sd \in Nat, vd \in Nat :
                 /\ ticket'[d].count = kd /\ ticket'[d].desired = sd
                 /\ ticket'[d].overcommit = vd
                 /\ kd + sd <= k \/ k + s <= kd
                 /\ \/ kd + sd <= m
                    \/ /\ m <= kd
                       /\ headIndex + w + Cardinality(OpenBelow(kd)) <= kd - vd
  <2>1. d # c /\ pc[d] = "recheck" /\ ticket'[d] = ticket[d]
    BY <1>7, <1>13
  <2>2. PICK kd \in Nat, sd \in Nat, vd \in Nat :
           /\ kd = ticket[d].count /\ sd = ticket[d].desired /\ vd = ticket[d].overcommit
           /\ sd > 0
    BY <2>1, PendingFields
  <2>3. TicketsOf(c) \cap TicketsOf(d) = {}
    BY <1>2, <2>1 DEF Apart, TicketsApart
  <2>4. kd + sd <= k \/ k + s <= kd
    BY <1>3, <2>2, <2>3, IntervalsApart DEF TicketsOf
  <2>5. \/ kd + sd <= m
        \/ m <= kd /\ headIndex + Cardinality(Won) + Cardinality(OpenBelow(kd)) <= kd - vd
    BY <2>1, <2>2 DEF Winnable
  <2> QED BY <1>11, <2>1, <2>2, <2>4, <2>5
<1>14. headIndex + w + Cardinality(OpenBelow(m)) <= tailIndex
  BY <1>11 DEF Winnable
<1>15. \/ k + s <= m
       \/ m <= k /\ headIndex + w + Cardinality(OpenBelow(k)) <= k - v
  BY <1>2, <1>3, <1>11 DEF Winnable
<1>w. ASSUME NEW n \in 0 .. dequeueOptimisticCount,
             headIndex + (w + a) + Cardinality(ElseBelow(c, n)) <= tailIndex,
             \A kd, sd, vd \in Nat :
                /\ kd + sd <= k \/ k + s <= kd
                /\ \/ kd + sd <= m
                   \/ m <= kd /\ headIndex + w + Cardinality(OpenBelow(kd)) <= kd - vd
                => \/ kd + sd <= n
                   \/ /\ n <= kd
                      /\ headIndex + (w + a) + Cardinality(ElseBelow(c, kd)) <= kd - vd
      PROVE  \E i \in 0 .. dequeueOptimisticCount : Winnable(i)'
  <2>0. n \in Nat
    BY <1>1
  <2>1. headIndex' + Cardinality(Won') + Cardinality({x \in Open' : x < n}) <= tailIndex'
    BY <1>w, <2>0, <1>6, <1>11, <1>12
  <2>2. ASSUME NEW d \in Consumers, pc'[d] = "recheck"
        PROVE  \/ ticket'[d].count + ticket'[d].desired <= n
               \/ /\ n <= ticket'[d].count
                  /\ headIndex' + Cardinality(Won')
                       + Cardinality({x \in Open' : x < ticket'[d].count})
                       <= ticket'[d].count - ticket'[d].overcommit
    <3>1. PICK kd \in Nat, sd \in Nat, vd \in Nat :
                 /\ ticket'[d].count = kd /\ ticket'[d].desired = sd
                 /\ ticket'[d].overcommit = vd
                 /\ kd + sd <= k \/ k + s <= kd
                 /\ \/ kd + sd <= m
                    \/ /\ m <= kd
                       /\ headIndex + w + Cardinality(OpenBelow(kd)) <= kd - vd
      BY <1>13, <2>2
    <3>2. \/ kd + sd <= n
          \/ /\ n <= kd
             /\ headIndex + (w + a) + Cardinality(ElseBelow(c, kd)) <= kd - vd
      BY <1>w, <3>1
    <3> QED BY <1>6, <1>11, <1>12, <3>1, <3>2
  <2>3. Winnable(n)'
    BY <2>1, <2>2 DEF Winnable, OpenBelow
  <2> QED BY <2>3
<1>a. a <= s /\ (a > 0 => a <= tailIndex - (k - v))
  BY <1>4, <1>5
<1>16. CASE k + s <= m
  <2>1. Cardinality(OpenBelow(m)) = Cardinality(ElseBelow(c, m)) + s
        /\ Cardinality(ElseBelow(c, m)) \in Nat
    BY <1>1, <1>12, <1>16
  <2>2. headIndex + (w + a) + Cardinality(ElseBelow(c, m)) <= tailIndex
    BY <1>1, <1>14, <1>a, <2>1
  <2>3. ASSUME NEW kd \in Nat, NEW sd \in Nat, NEW vd \in Nat,
               kd + sd <= k \/ k + s <= kd, m <= kd, ~(kd + sd <= m),
               headIndex + w + Cardinality(OpenBelow(kd)) <= kd - vd
        PROVE  headIndex + (w + a) + Cardinality(ElseBelow(c, kd)) <= kd - vd
    <3>1. Cardinality(OpenBelow(kd)) = Cardinality(ElseBelow(c, kd)) + s
          /\ Cardinality(ElseBelow(c, kd)) \in Nat
      <4>1. k + s <= kd
        BY <1>1, <1>3, <1>16, <2>3
      <4> QED BY <1>12, <4>1
    <3> QED BY <1>1, <1>3, <1>5, <1>10, <1>a, <2>3, <3>1
  <2>4. \A kd, sd, vd \in Nat :
                /\ kd + sd <= k \/ k + s <= kd
                /\ \/ kd + sd <= m
                   \/ m <= kd /\ headIndex + w + Cardinality(OpenBelow(kd)) <= kd - vd
                => \/ kd + sd <= m
                   \/ /\ m <= kd
                      /\ headIndex + (w + a) + Cardinality(ElseBelow(c, kd)) <= kd - vd
    BY <2>3
  <2> QED BY <1>w, <2>2, <2>4
<1>17. CASE m <= k /\ headIndex + w + Cardinality(OpenBelow(k)) <= k - v /\ a = 0
  <2>1. headIndex + (w + a) + Cardinality(ElseBelow(c, m)) <= tailIndex
    <3>1. Cardinality(OpenBelow(m)) = Cardinality(ElseBelow(c, m))
      BY <1>1, <1>12, <1>17
    <3> QED BY <1>1, <1>10, <1>14, <1>17, <3>1
  <2>2. ASSUME NEW kd \in Nat, NEW sd \in Nat, NEW vd \in Nat,
               kd + sd <= k \/ k + s <= kd,
               headIndex + w + Cardinality(OpenBelow(kd)) <= kd - vd
        PROVE  headIndex + (w + a) + Cardinality(ElseBelow(c, kd)) <= kd - vd
    <3>1. Cardinality(ElseBelow(c, kd)) \in Nat
          /\ \/ Cardinality(OpenBelow(kd)) = Cardinality(ElseBelow(c, kd))
             \/ Cardinality(OpenBelow(kd)) = Cardinality(ElseBelow(c, kd)) + s
      <4>1. kd <= k \/ k + s <= kd
        BY <2>2
      <4> QED BY <1>12, <4>1
    <3> QED BY <1>1, <1>3, <1>10, <1>17, <2>2, <3>1
  <2>3. \A kd, sd, vd \in Nat :
                /\ kd + sd <= k \/ k + s <= kd
                /\ \/ kd + sd <= m
                   \/ m <= kd /\ headIndex + w + Cardinality(OpenBelow(kd)) <= kd - vd
                => \/ kd + sd <= m
                   \/ /\ m <= kd
                      /\ headIndex + (w + a) + Cardinality(ElseBelow(c, kd)) <= kd - vd
    BY <2>2
  <2> QED BY <1>w, <2>1, <2>3
<1>18. CASE m <= k /\ headIndex + w + Cardinality(OpenBelow(k)) <= k - v /\ a > 0
  <2>1. k + a \in 0 .. dequeueOptimisticCount
    BY <1>1, <1>3, <1>a
  <2>2. Cardinality(ElseBelow(c, k + a)) = Cardinality(ElseBelow(c, k))
    BY <1>2, <1>3, <1>a, NoneBetween DEF Pending
  <2>3. headIndex + (w + a) + Cardinality(ElseBelow(c, k + a)) <= tailIndex
    <3>1. Cardinality(OpenBelow(k)) = Cardinality(ElseBelow(c, k))
          /\ Cardinality(ElseBelow(c, k)) \in Nat
      <4>1. k \in Nat /\ k <= k
        BY <1>3
      <4>2. Cardinality(OpenBelow(k)) = Cardinality(ElseBelow(c, k))
        BY <1>12, <4>1
      <4>3. Cardinality(ElseBelow(c, k)) \in Nat
        BY <1>12, <4>1
      <4> QED BY <4>2, <4>3
    <3> QED BY <1>1, <1>3, <1>5, <1>10, <1>18, <1>a, <2>2, <3>1
  <2>4. ASSUME NEW kd \in Nat, NEW sd \in Nat, NEW vd \in Nat,
               kd + sd <= k \/ k + s <= kd, ~(kd + sd <= k + a),
               \/ kd + sd <= m
               \/ m <= kd /\ headIndex + w + Cardinality(OpenBelow(kd)) <= kd - vd
        PROVE  /\ k + a <= kd
               /\ headIndex + (w + a) + Cardinality(ElseBelow(c, kd)) <= kd - vd
    <3>1. k + s <= kd
      BY <1>a, <2>4
    <3>2. headIndex + w + Cardinality(OpenBelow(kd)) <= kd - vd
      BY <1>1, <1>3, <1>18, <2>4, <3>1
    <3>3. Cardinality(OpenBelow(kd)) = Cardinality(ElseBelow(c, kd)) + s
          /\ Cardinality(ElseBelow(c, kd)) \in Nat
      BY <1>12, <3>1
    <3> QED BY <1>1, <1>3, <1>5, <1>10, <1>a, <3>1, <3>2, <3>3
  <2>5. \A kd, sd, vd \in Nat :
                /\ kd + sd <= k \/ k + s <= kd
                /\ \/ kd + sd <= m
                   \/ m <= kd /\ headIndex + w + Cardinality(OpenBelow(kd)) <= kd - vd
                => \/ kd + sd <= k + a
                   \/ /\ k + a <= kd
                      /\ headIndex + (w + a) + Cardinality(ElseBelow(c, kd)) <= kd - vd
    BY <2>4
  <2> QED BY <1>w, <2>1, <2>3, <2>5
<1> QED BY <1>15, <1>16, <1>17, <1>18

\* Most steps of a dequeue are taken without tickets.
LEMMA NotPending ==
  ASSUME NEW c \in Consumers, pc \in [Consumers -> Places], TypeOK,
         \/ \E k \in TakeSizes : LoadTail(c, k)
         \/ LoadOvercommit(c) \/ CheckAvailable(c) \/ Handles(c)
  PROVE  pc[c] \notin Pending /\ pc'[c] \notin Pending
<1> USE DEF Pending
<1>1. CASE \E n \in TakeSizes : LoadTail(c, n)
  BY <1>1, LoadTailDoes
<1>2. CASE LoadOvercommit(c)
  BY <1>2, LoadOvercommitDoes
<1>3. CASE CheckAvailable(c)
  <2>1. pc[c] = "check" /\ (pc'[c] = "idle" \/ pc'[c] = "ticket")
    BY <1>3 DEF CheckAvailable, Goto
  <2> QED BY <2>1
<1>4. CASE Handles(c)
  <2>1. pc[c] \in HandPlaces /\ \E to \in HandPlaces \cup {"idle"} : pc' = [pc EXCEPT ![c] = to]
    BY <1>4, HandDoes
  <2> QED BY <2>1 DEF HandPlaces
<1> QED BY <1>1, <1>2, <1>3, <1>4

LEMMA WonCounts ==
  ASSUME Apart
  PROVE  /\ Cardinality(Won) \in Nat
         /\ \A n \in Nat : Cardinality(OpenBelow(n)) \in Nat
         /\ \A c \in Consumers : pc[c] \in {"giveup", "claim"} =>
               ticket[c].actual <= Cardinality(Won)
<1>1. IsFiniteSet(0 .. dequeueOptimisticCount - 1)
  BY FS_Interval DEF Apart, CounterTypes
<1>2. \A d \in Consumers : pc[d] \in Pending =>
         /\ TicketsOf(d) \subseteq 0 .. dequeueOptimisticCount - 1
         /\ pc[d] # "recheck" => WonBy(d) \subseteq 0 .. dequeueOptimisticCount - 1
  BY OwnCounts
<1>3. Open \subseteq 0 .. dequeueOptimisticCount - 1
  BY <1>2 DEF Open, Pending
<1>4. Won \subseteq 0 .. dequeueOptimisticCount - 1
  BY <1>2 DEF Won, Pending
<1>5. IsFiniteSet(Won) /\ IsFiniteSet(Open)
  BY <1>1, <1>3, <1>4, FS_Subset
<1>6. \A n \in Nat : OpenBelow(n) \subseteq Open
  BY DEF OpenBelow
<1>7. ASSUME NEW c \in Consumers, pc[c] \in {"giveup", "claim"}
      PROVE  ticket[c].actual <= Cardinality(Won)
  <2>1. WonBy(c) \subseteq Won
    BY <1>7 DEF Won
  <2>2. Cardinality(WonBy(c)) = ticket[c].actual
    BY <1>7, OwnCounts DEF Pending
  <2> QED BY <1>5, <2>1, <2>2, FS_Subset
<1> QED BY <1>5, <1>6, <1>7, FS_Subset, FS_CardinalityType

\* Whatever happens, there is a number of tickets below which all can still win.
LEMMA StepWinnable ==
  ASSUME TypeOK, TicketInv, Next, TicketsApart', \A c \in Consumers : TicketFields(c)'
  PROVE  \E n \in 0 .. dequeueOptimisticCount' : Winnable(n)'
<1>1. CounterTypes /\ CounterTypes'
  BY StepFields, TypesOfCounters
<1>2. Apart
  BY <1>1 DEF Apart, TicketInv
<1>3. Apart'
  BY <1>1 DEF Apart
<1>4. PICK n \in 0 .. dequeueOptimisticCount : Winnable(n)
  BY DEF TicketInv
<1>5. /\ n \in Nat /\ dequeueOptimisticCount \in Nat /\ dequeueOptimisticCount' \in Nat
      /\ pc \in [Consumers -> Places] /\ ticket \in [Consumers -> AllTickets]
      /\ headIndex \in Nat /\ tailIndex \in Nat
  BY <1>1 DEF CounterTypes
\* The steps that leave the tickets won and open alone.
<1>6. ASSUME UNCHANGED <<pc, ticket, headIndex, dequeueOptimisticCount>>,
             tailIndex' >= tailIndex,
             headIndex + Cardinality(Won) + Cardinality(OpenBelow(n)) \in Int
      PROVE  \E m \in 0 .. dequeueOptimisticCount' : Winnable(m)'
  <2>1. Open' = Open /\ Won' = Won
    BY <1>6 DEF Open, Won, TicketsOf, WonBy
  <2>2. \A k \in Nat : Cardinality(OpenBelow(k)') = Cardinality(OpenBelow(k))
    BY <2>1 DEF OpenBelow
  <2>3. Winnable(n)'
    BY <1>1, <1>4, <1>5, <1>6, <2>1, <2>2, WinnableKept
  <2> QED BY <1>5, <1>6, <2>3
<1>7. ASSUME NEW c \in Consumers, Consumer(c)
      PROVE  \E m \in 0 .. dequeueOptimisticCount' : Winnable(m)'
  <2>1. Split(c) /\ Split(c)'
    <3>1. Apart' => AllSplit'
      BY ApartSplits, PTL
    <3> QED BY <1>2, <1>3, <3>1, ApartSplits DEF AllSplit
  <2>2. /\ WonElse(c)' = WonElse(c)
        /\ \A k \in Nat : ElseBelow(c, k)' = ElseBelow(c, k)
    BY <1>7, OthersStay, ElseStays
  <2>3. tailIndex' = tailIndex
    BY <1>7, ProducerStays
  <2>4. /\ ticket[c].desired \in Nat /\ ticket[c].actual \in Nat /\ ticket[c].count \in Nat
        /\ Cardinality(WonElse(c)) \in Nat
        /\ \A k \in Nat : Cardinality(ElseBelow(c, k)) \in Nat
    BY <1>2, TicketFieldTypes, ElseCounts
  \* Neither before nor after does the call have open tickets.
  <2>5. ASSUME pc[c] # "recheck", pc'[c] # "recheck",
               headIndex' + Cardinality(Won') = headIndex + Cardinality(Won),
               dequeueOptimisticCount' = dequeueOptimisticCount,
               Cardinality(Won) \in Nat
        PROVE  Winnable(n)'
    <3>1. ASSUME NEW k \in Nat PROVE Cardinality(OpenBelow(k)') = Cardinality(OpenBelow(k))
      <4>1. Cardinality(OpenBelow(k)) = Cardinality(ElseBelow(c, k))
        BY <2>1, <2>5 DEF Split
      <4>2. Cardinality(OpenBelow(k)') = Cardinality(ElseBelow(c, k)')
        BY <2>1, <2>5 DEF Split
      <4> QED BY <2>2, <4>1, <4>2
    <3>2. \A d \in Consumers :
             pc'[d] = "recheck" => pc[d] = "recheck" /\ ticket'[d] = ticket[d]
      BY <1>7, <2>5, OthersStay
    <3>3. headIndex + Cardinality(Won) + Cardinality(OpenBelow(n)) \in Int
      <4>1. Cardinality(OpenBelow(n)) = Cardinality(ElseBelow(c, n))
        BY <1>5, <2>1, <2>5 DEF Split
      <4> QED BY <1>5, <2>4, <2>5, <4>1
    <3>4. tailIndex' >= tailIndex
      BY <1>5, <2>3
    <3> QED BY <1>1, <1>4, <1>5, <2>5, <3>1, <3>2, <3>3, <3>4, WinnableKept
  <2>6. /\ Cardinality(Won) = Cardinality(WonElse(c))
              + IF pc[c] \in {"giveup", "claim"} THEN ticket[c].actual ELSE 0
        /\ Cardinality(Won') = Cardinality(WonElse(c))
              + IF pc'[c] \in {"giveup", "claim"} THEN ticket'[c].actual ELSE 0
    BY <2>1, <2>2 DEF Split
  <2>7. CASE (\E k \in TakeSizes : LoadTail(c, k)) \/ LoadOvercommit(c)
             \/ CheckAvailable(c) \/ Handles(c)
    <3>1. Quietly(c)
      BY <2>7 DEF Quietly, Handles
    <3>2. headIndex' = headIndex /\ dequeueOptimisticCount' = dequeueOptimisticCount
      BY <3>1, QuietSteps DEF counters
    <3>3. pc[c] \notin Pending /\ pc'[c] \notin Pending
      BY <1>5, <2>7, NotPending
    <3>4. Cardinality(Won') = Cardinality(Won) /\ Cardinality(Won) \in Nat
      BY <2>4, <2>6, <3>3 DEF Pending
    <3>5. Winnable(n)'
      BY <2>5, <3>2, <3>3, <3>4 DEF Pending
    <3> QED BY <3>2, <3>5
  <2>8. CASE TakeTickets(c)
    <3>1. Winnable(n)'
      BY <1>2, <1>3, <1>4, <2>8, TakeWinnable
    <3>2. dequeueOptimisticCount' >= dequeueOptimisticCount
      <4>1. dequeueOptimisticCount' = dequeueOptimisticCount + ticket[c].desired
        BY <2>8, TakeDoes
      <4> QED BY <1>5, <2>4, <4>1
    <3>3. n \in 0 .. dequeueOptimisticCount'
      BY <1>5, <3>2
    <3> QED BY <3>1, <3>3
  <2>9. CASE Recheck(c)
    <3>1. dequeueOptimisticCount' = dequeueOptimisticCount
      <4>1. Quietly(c)
        BY <2>9 DEF Quietly
      <4> QED BY <4>1, QuietSteps DEF counters
    <3>2. \E m \in 0 .. dequeueOptimisticCount : Winnable(m)'
      BY <1>2, <1>3, <1>4, <2>9, RecheckWinnable
    <3> QED BY <3>1, <3>2
  <2>10. CASE GiveUp(c)
    <3>1. /\ pc[c] = "giveup" /\ headIndex' = headIndex
          /\ dequeueOptimisticCount' = dequeueOptimisticCount
      BY <2>10, GiveUpDoes
    <3>2. \/ pc'[c] = "claim" /\ ticket' = ticket
          \/ ticket[c].actual = 0 /\ pc'[c] = "idle"
      BY <1>5, <2>10, GiveUpDoes
    <3>3. /\ Cardinality(Won') = Cardinality(Won) /\ Cardinality(Won) \in Nat
          /\ pc[c] # "recheck" /\ pc'[c] # "recheck"
      BY <2>4, <2>6, <3>1, <3>2
    <3>4. Winnable(n)'
      BY <2>5, <3>1, <3>3
    <3> QED BY <3>1, <3>4
  <2>11. CASE Claim(c)
    <3>1. /\ pc[c] = "claim" /\ pc' = [pc EXCEPT ![c] = "front"]
          /\ headIndex' = headIndex + ticket[c].actual
          /\ dequeueOptimisticCount' = dequeueOptimisticCount
      BY <2>11, ClaimDoes
    <3>2. pc'[c] = "front"
      BY <1>5, <3>1
    <3>3. /\ Cardinality(Won) = Cardinality(WonElse(c)) + ticket[c].actual
          /\ Cardinality(Won') = Cardinality(WonElse(c))
      BY <2>4, <2>6, <3>1, <3>2
    <3>4. /\ headIndex' + Cardinality(Won') = headIndex + Cardinality(Won)
          /\ Cardinality(Won) \in Nat
      BY <1>5, <2>4, <3>1, <3>3
    <3>5. Winnable(n)'
      BY <2>5, <3>1, <3>2, <3>4
    <3> QED BY <3>1, <3>5
  <2> QED BY <1>7, <2>7, <2>8, <2>9, <2>10, <2>11, HandleCases
<1>8. CASE Producer \/ Others \/ Destroy
  <2>1. /\ pc' = pc /\ ticket' = ticket /\ headIndex' = headIndex
        /\ dequeueOptimisticCount' = dequeueOptimisticCount /\ tailIndex' >= tailIndex
    BY <1>8, ConsumersStay, TailGrows
  <2>2. headIndex + Cardinality(Won) + Cardinality(OpenBelow(n)) \in Int
    BY <1>2, <1>5, WonCounts
  <2> QED BY <1>6, <2>1, <2>2
<1> QED BY <1>7, <1>8, NextCases

\* The tickets are kept by every step, on the strength of the types alone.
LEMMA StepTickets ==
  ASSUME TypeOK, TicketInv, [Next]_vars
  PROVE  TicketInv'
<1>1. CASE Next
  <2>1. TicketsApart' /\ \A c \in Consumers : TicketFields(c)'
    BY <1>1, StepApart, StepFields
  <2>2. TicketsCounted'
    BY <1>1, <2>1, StepCounted
  <2>3. \E n \in 0 .. dequeueOptimisticCount' : Winnable(n)'
    BY <1>1, <2>1, StepWinnable
  <2> QED BY <2>1, <2>2, <2>3 DEF TicketInv
<1>2. CASE UNCHANGED vars
  <2>1. UNCHANGED <<tailIndex, headIndex, dequeueOptimisticCount, dequeueOvercommit, pc, ticket>>
    BY <1>2 DEF vars, counters, consumer
  <2>2. \A c \in Consumers : TicketsOf(c)' = TicketsOf(c) /\ WonBy(c)' = WonBy(c)
    BY <2>1 DEF TicketsOf, WonBy
  <2>3. Open' = Open /\ Won' = Won /\ Lost' = Lost
    BY <2>1, <2>2 DEF Open, Won, Lost
  <2>4. \A k : OpenBelow(k)' = OpenBelow(k)
    BY <2>3 DEF OpenBelow
  <2>5. TicketsApart'
    BY <2>1, <2>2 DEF TicketInv, TicketsApart
  <2>6. TicketsCounted'
    BY <2>1, <2>3 DEF TicketInv, TicketsCounted
  <2>7. \A c \in Consumers : TicketFields(c)'
    BY <2>1 DEF TicketInv, TicketFields
  <2>8. PICK n \in 0 .. dequeueOptimisticCount : Winnable(n)
    BY DEF TicketInv
  <2>9. Winnable(n)'
    BY <2>1, <2>3, <2>8 DEF Winnable, OpenBelow
  <2> QED BY <2>1, <2>5, <2>6, <2>7, <2>9 DEF TicketInv
<1> QED BY <1>1, <1>2

\* Calls win no more elements than there are.
LEMMA HeadBelowTail ==
  ASSUME TypeOK, TicketInv
  PROVE  /\ headIndex <= tailIndex
         /\ \A c \in Consumers : pc[c] \in {"giveup", "claim"} =>
               headIndex + ticket[c].actual <= tailIndex
<1>1. CounterTypes
  BY TypesOfCounters
<1>2. Apart
  BY <1>1 DEF Apart, TicketInv
<1>3. PICK n \in 0 .. dequeueOptimisticCount : Winnable(n)
  BY DEF TicketInv
<1>4. n \in Nat /\ headIndex \in Nat /\ tailIndex \in Nat
  BY <1>1 DEF CounterTypes
<1>5. /\ Cardinality(Won) \in Nat /\ Cardinality(OpenBelow(n)) \in Nat
      /\ \A c \in Consumers : pc[c] \in {"giveup", "claim"} =>
            ticket[c].actual <= Cardinality(Won)
  BY <1>2, <1>4, WonCounts
<1>6. headIndex + Cardinality(Won) + Cardinality(OpenBelow(n)) <= tailIndex
  BY <1>3 DEF Winnable
<1>7. \A c \in Consumers : ticket[c].actual \in Nat
  BY TicketFieldTypes
<1> QED BY <1>4, <1>5, <1>6, <1>7

-----------------------------------------------------------------------------
(* Arithmetic of indexes, blocks and entries *)

LEMMA Quotient ==
  ASSUME NEW n \in Nat, n > 0, NEW q \in Int, NEW r \in 0 .. n - 1,
         NEW a \in Int, a = n * q + r
  PROVE  a % n = r /\ a \div n = q
  OBVIOUS

LEMMA Division ==
  ASSUME NEW n \in Nat, n > 0, NEW a \in Int
  PROVE  \E q \in Int, r \in 0 .. n - 1 :
            a = n * q + r /\ a % n = r /\ a \div n = q
<1> DEFINE q == a \div n
<1>1. q \in Int /\ a % n \in 0 .. n - 1 /\ a = n * q + (a % n)
  OBVIOUS
<1> QED BY <1>1

LEMMA RemainderPlus ==
  ASSUME NEW n \in Nat, n > 0, NEW a \in Int, NEW b \in Int
  PROVE  ((a % n) + (b - a)) % n = b % n
<1>1. PICK q \in Int, r \in 0 .. n - 1 : a = n * q + r /\ a % n = r /\ a \div n = q
  BY Division
<1>2. PICK p \in Int, s \in 0 .. n - 1 : b = n * p + s /\ b % n = s /\ b \div n = p
  BY Division
<1> DEFINE u == n * q
           v == n * p
           w == n * (p - q)
<1>3. u \in Int /\ v \in Int /\ w \in Int /\ w = v - u
  OBVIOUS
<1>4. r + (b - a) = w + s
  <2> HIDE DEF u, v, w
  <2>1. a = u + r /\ b = v + s
    BY <1>1, <1>2 DEF u, v
  <2> QED BY <1>3, <2>1
<1>5. p - q \in Int /\ r + (b - a) \in Int /\ r + (b - a) = n * (p - q) + s
  BY <1>4
<1>6. (r + (b - a)) % n = s
  <2>1. PICK d \in Int, e \in Int : d = p - q /\ e = r + (b - a) /\ e = n * d + s
    BY <1>5
  <2>2. e % n = s /\ e \div n = d
    <3>1. s \in 0 .. n - 1 /\ e = n * d + s
      BY <1>2, <2>1
    <3> QED BY <3>1, Quotient
  <2> QED BY <2>1, <2>2
<1> QED BY <1>1, <1>2, <1>6

\* Remainders of numbers that are less than n apart are different.
LEMMA RemaindersDiffer ==
  ASSUME NEW n \in Nat, n > 0, NEW a \in Int, NEW b \in Int, a < b, b - a < n
  PROVE  a % n # b % n
<1>1. PICK q \in Int, r \in 0 .. n - 1 : a = n * q + r /\ a % n = r /\ a \div n = q
  BY Division
<1>2. SUFFICES ASSUME b % n = r PROVE FALSE
  BY <1>1
<1>3. PICK p \in Int, s \in 0 .. n - 1 : b = n * p + s /\ b % n = s /\ b \div n = p
  BY Division
<1> DEFINE u == n * q
           v == n * p
           w == n * (p - q)
<1>4. u \in Int /\ v \in Int /\ w \in Int /\ w = v - u
  OBVIOUS
<1>5. b - a = w /\ p - q \in Int
  <2> HIDE DEF u, v, w
  <2>1. a = u + r /\ b = v + r
    BY <1>1, <1>2, <1>3 DEF u, v
  <2> QED BY <1>4, <2>1
<1>6. CASE p - q <= 0
  <2>1. n * (p - q) <= 0
    BY <1>6
  <2> QED BY <1>5, <2>1
<1>7. CASE p - q >= 1
  <2>1. n * (p - q) >= n
    BY <1>7
  <2> QED BY <1>5, <2>1
<1> QED BY <1>5, <1>6, <1>7

\* Where block p begins.
Begin(p) == BlockSize * p

LEMMA Begins ==
  ASSUME NEW p \in Int
  PROVE  Begin(p) \in Int /\ Begin(p + 1) = Begin(p) + BlockSize
         /\ (p \in Nat => Begin(p) \in Nat)
  BY SizeAssumption DEF Begin

LEMMA BeginsGrow ==
  ASSUME NEW p \in Int, NEW q \in Int, p < q
  PROVE  Begin(p) + BlockSize <= Begin(q)
<1> DEFINE d == q - p - 1
<1>1. d \in Nat /\ q = p + 1 + d /\ BlockSize \in Nat
  BY SizeAssumption
<1>2. BlockSize * q = BlockSize * p + BlockSize + BlockSize * d /\ BlockSize * d \in Nat
  BY <1>1
<1> QED BY <1>1, <1>2 DEF Begin

\* Every index is a cell of one block.
LEMMA Index ==
  ASSUME NEW i \in Int
  PROVE  /\ Pos(i) \in Int /\ Cell(i) \in Cells /\ i = Begin(Pos(i)) + Cell(i)
         /\ Base(i) = Begin(Pos(i))
         /\ Begin(Pos(i)) <= i /\ i < Begin(Pos(i)) + BlockSize
         /\ Begin(Pos(i)) \in Int
<1>1. BlockSize \in Nat /\ BlockSize > 0
  BY SizeAssumption
<1>2. PICK q \in Int, r \in 0 .. BlockSize - 1 :
         i = BlockSize * q + r /\ i % BlockSize = r /\ i \div BlockSize = q
  BY <1>1, Division
<1>3. Pos(i) = q /\ Cell(i) = r /\ i = Begin(q) + r /\ Begin(q) \in Int
  BY <1>1, <1>2 DEF Pos, Cell, Begin
<1>4. Base(i) = i - r
  BY <1>2 DEF Base
<1> HIDE DEF Begin
<1> QED BY <1>1, <1>3, <1>4 DEF Cells

LEMMA PosIs ==
  ASSUME NEW i \in Int, NEW p \in Int, Begin(p) <= i, i < Begin(p) + BlockSize
  PROVE  Pos(i) = p /\ Cell(i) = i - Begin(p)
<1>1. BlockSize \in Nat /\ BlockSize > 0 /\ Begin(p) \in Int
  BY SizeAssumption, Begins
<1>2. PICK r \in 0 .. BlockSize - 1 : r = i - Begin(p)
  BY <1>1
<1>3. i = BlockSize * p + r
  BY <1>1, <1>2 DEF Begin
<1> QED BY <1>1, <1>2, <1>3, Quotient DEF Pos, Cell

\* The indexes of block p.
LEMMA CellsOf ==
  ASSUME NEW p \in Int, NEW j \in Cells
  PROVE  /\ Begin(p) + j \in Int /\ Pos(Begin(p) + j) = p /\ Cell(Begin(p) + j) = j
         /\ (p \in Nat => Begin(p) + j \in Nat)
<1>1. Begin(p) \in Int /\ j \in Nat /\ j < BlockSize /\ BlockSize \in Nat
      /\ (p \in Nat => Begin(p) \in Nat)
  BY SizeAssumption, Begins DEF Cells
<1> QED BY <1>1, PosIs

LEMMA PosMono ==
  ASSUME NEW i \in Int, NEW k \in Int, i <= k
  PROVE  Pos(i) <= Pos(k)
<1>1. /\ Pos(i) \in Int /\ Pos(k) \in Int /\ BlockSize \in Nat
      /\ Begin(Pos(i)) <= i /\ k < Begin(Pos(k)) + BlockSize
      /\ Begin(Pos(i)) \in Int /\ Begin(Pos(k)) \in Int
  BY Index, SizeAssumption
<1>2. CASE Pos(k) < Pos(i)
  <2>1. Begin(Pos(k)) + BlockSize <= Begin(Pos(i))
    BY <1>1, <1>2, BeginsGrow
  <2> QED BY <1>1, <2>1
<1> QED BY <1>1, <1>2

LEMMA PosBelow ==
  ASSUME NEW i \in Int, NEW p \in Int
  PROVE  /\ Pos(i) < p <=> i < Begin(p)
         /\ p <= Pos(i) <=> Begin(p) <= i
<1>1. /\ Pos(i) \in Int /\ BlockSize \in Nat
      /\ Begin(Pos(i)) <= i /\ i < Begin(Pos(i)) + BlockSize
      /\ Begin(Pos(i)) \in Int /\ Begin(p) \in Int
  BY Index, Begins, SizeAssumption
<1>2. CASE Pos(i) < p
  <2>1. Begin(Pos(i)) + BlockSize <= Begin(p)
    BY <1>1, <1>2, BeginsGrow
  <2> QED BY <1>1, <1>2, <2>1
<1>3. CASE p = Pos(i)
  BY <1>1, <1>3
<1>4. CASE p < Pos(i)
  <2>1. Begin(p) + BlockSize <= Begin(Pos(i))
    BY <1>1, <1>4, BeginsGrow
  <2> QED BY <1>1, <1>4, <2>1
<1> QED BY <1>1, <1>2, <1>3, <1>4

LEMMA PosOfNat ==
  ASSUME NEW i \in Nat
  PROVE  Pos(i) \in Nat
<1>1. Begin(0) = 0
  BY SizeAssumption DEF Begin
<1>2. 0 <= Pos(i) <=> Begin(0) <= i
  BY PosBelow
<1>3. Pos(i) \in Int
  BY Index
<1> QED BY <1>1, <1>2, <1>3

\* Entries of the index.
LEMMA EntryIs ==
  ASSUME NEW p \in Int
  PROVE  /\ p % IndexSize \in Entries
         /\ (p \in Entries => p % IndexSize = p)
<1>1. IndexSize \in Nat /\ IndexSize > 0
  BY SizeAssumption
<1>2. p % IndexSize \in 0 .. IndexSize - 1
  BY <1>1
<1>3. ASSUME p \in Entries PROVE p % IndexSize = p
  <2>1. p \in 0 .. IndexSize - 1 /\ p = IndexSize * 0 + p /\ 0 \in Int
    BY <1>1, <1>3 DEF Entries
  <2> QED BY <1>1, <2>1, Quotient
<1> QED BY <1>2, <1>3 DEF Entries

LEMMA EntryPlus ==
  ASSUME NEW p \in Int, NEW q \in Int
  PROVE  /\ ((p % IndexSize) + q) % IndexSize = (p + q) % IndexSize
         /\ ((p % IndexSize) - q) % IndexSize = (p - q) % IndexSize
<1>1. IndexSize \in Nat /\ IndexSize > 0
  BY SizeAssumption
<1>2. p % IndexSize \in Int /\ p + q \in Int /\ (p + q) - p = q
      /\ p - q \in Int /\ (p - q) - p = -q
  BY <1>1
<1>3. ((p % IndexSize) + ((p + q) - p)) % IndexSize = (p + q) % IndexSize
  BY <1>1, <1>2, RemainderPlus
<1>4. ((p % IndexSize) + ((p - q) - p)) % IndexSize = (p - q) % IndexSize
  BY <1>1, <1>2, RemainderPlus
<1>5. (p % IndexSize) + ((p - q) - p) = (p % IndexSize) - q
  BY <1>2
<1> QED BY <1>2, <1>3, <1>4, <1>5

LEMMA EntriesDiffer ==
  ASSUME NEW p \in Int, NEW q \in Int, p < q, q - p < IndexSize
  PROVE  p % IndexSize # q % IndexSize
  BY SizeAssumption, RemaindersDiffer

-----------------------------------------------------------------------------
(* Blocks started, blocks needed *)

LEMMA StartedIs ==
  ASSUME tailIndex \in Nat
  PROVE  /\ Started \in Nat /\ Begin(Started) \in Nat
         /\ tailIndex <= Begin(Started) /\ Begin(Started) < tailIndex + BlockSize
         /\ Pos(tailIndex - 1) = Started - 1
         /\ tailIndex > 0 <=> Started > 0
         /\ Pos(tailIndex) <= Started
<1> DEFINE t == tailIndex
<1>1. t + BlockSize - 1 \in Nat /\ BlockSize \in Nat /\ BlockSize > 1 /\ t \in Nat
  BY SizeAssumption
<1>2. Started \in Nat
  BY <1>1, PosOfNat DEF Started
<1>3. Begin(Started) <= t + BlockSize - 1 /\ t + BlockSize - 1 < Begin(Started) + BlockSize
      /\ Begin(Started) \in Int
  BY <1>1, Index DEF Started
<1>4. t <= Begin(Started) /\ Begin(Started) < t + BlockSize
  BY <1>1, <1>3
<1>5. Begin(Started - 1) = Begin(Started) - BlockSize /\ Begin(Started - 1) \in Int
  <2>1. Started - 1 \in Int /\ (Started - 1) + 1 = Started
    BY <1>2
  <2>2. Begin((Started - 1) + 1) = Begin(Started - 1) + BlockSize /\ Begin(Started - 1) \in Int
    BY <2>1, Begins
  <2> QED BY <1>1, <1>3, <2>1, <2>2
<1>6. Pos(t - 1) = Started - 1
  <2>1. t - 1 \in Int /\ Started - 1 \in Int
    BY <1>1, <1>2
  <2>2. Begin(Started - 1) <= t - 1 /\ t - 1 < Begin(Started - 1) + BlockSize
    BY <1>1, <1>3, <1>4, <1>5
  <2> QED BY <2>1, <2>2, PosIs
<1>7. Pos(t) <= Started
  <2>1. t <= t + BlockSize - 1
    BY <1>1
  <2> QED BY <1>1, <2>1, PosMono DEF Started
<1>8. t > 0 <=> Started > 0
  <2>1. Begin(0) = 0 /\ Begin(1) = BlockSize
    BY <1>1 DEF Begin
  <2>2. Started < 1 <=> t + BlockSize - 1 < Begin(1)
    BY <1>1, PosBelow DEF Started
  <2> QED BY <1>1, <1>2, <2>1, <2>2
<1> QED BY <1>2, <1>3, <1>4, <1>6, <1>7, <1>8, Begins

LEMMA BlockStartIs ==
  ASSUME tailIndex \in Nat, NEW k \in Int
  PROVE  BlockStart(k) = Begin(Started - 1 + k)
<1>1. Base(tailIndex - 1) = Begin(Started - 1) /\ Started - 1 \in Int
  BY StartedIs, Index
<1>2. BlockSize * (Started - 1) + BlockSize * k = BlockSize * (Started - 1 + k)
  BY <1>1, SizeAssumption
<1> QED BY <1>1, <1>2 DEF BlockStart, Begin

LEMMA NeedsIs ==
  ASSUME tailIndex \in Nat, NEW n \in Nat, NEW k \in Int
  PROVE  NeedsMore(n, k) <=> Started - 1 + k < Pos(tailIndex + n - 1)
<1>1. tailIndex + n - 1 \in Int /\ Started - 1 + k \in Int
  BY StartedIs
<1>2. PICK p \in Int, q \in Int : p = Started - 1 + k /\ q = Pos(tailIndex + n - 1)
  BY <1>1, Index
<1>3. NeedsMore(n, k) <=> Begin(p) < Begin(q)
  BY <1>1, <1>2, BlockStartIs, Index DEF NeedsMore
<1>4. Begin(p) \in Int /\ Begin(q) \in Int /\ BlockSize \in Nat /\ BlockSize > 0
  BY <1>2, Begins, SizeAssumption
<1>5. CASE p < q
  <2>1. Begin(p) + BlockSize <= Begin(q)
    BY <1>5, BeginsGrow
  <2> QED BY <1>2, <1>3, <1>4, <1>5, <2>1
<1>6. CASE q < p
  <2>1. Begin(q) + BlockSize <= Begin(p)
    BY <1>6, BeginsGrow
  <2> QED BY <1>2, <1>3, <1>4, <1>6, <2>1
<1>7. CASE p = q
  BY <1>2, <1>3, <1>4, <1>7
<1> QED BY <1>2, <1>5, <1>6, <1>7

LEMMA NeededIs ==
  ASSUME headIndex \in Nat, NEW p \in Int
  PROVE  Needed(p) <=> \E i \in Nat : NotEmptied(i) /\ Pos(i) <= p
<1>1. ASSUME NEW i \in Nat, NotEmptied(i), Pos(i) <= p
      PROVE  Needed(p)
  <2>1. CASE i <= headIndex
    BY <1>1, <2>1 DEF Needed
  <2>2. CASE i > headIndex
    <3>1. Pos(headIndex) <= Pos(i) /\ Pos(headIndex) \in Int /\ Pos(i) \in Int
      BY <2>2, PosMono, Index
    <3>2. NotEmptied(headIndex) /\ Pos(headIndex) <= p
      BY <1>1, <3>1 DEF NotEmptied
    <3> QED BY <3>2 DEF Needed
  <2> QED BY <2>1, <2>2
<1> QED BY <1>1 DEF Needed

LEMMA NeededMono ==
  ASSUME NEW p \in Int, NEW q \in Int, p <= q, Needed(p), headIndex \in Nat
  PROVE  Needed(q)
<1>1. PICK i \in 0 .. headIndex : NotEmptied(i) /\ Pos(i) <= p
  BY DEF Needed
<1>2. Pos(i) \in Int
  BY Index
<1> QED BY <1>1, <1>2 DEF Needed

LEMMA NeededHead ==
  ASSUME NEW p \in Int, Pos(headIndex) <= p, headIndex \in Nat
  PROVE  Needed(p)
  BY DEF Needed, NotEmptied

\* Where head and tail are.
LEMMA Where ==
  ASSUME TypeOK, TicketInv
  PROVE  /\ Started \in Nat /\ Latest \in Int /\ Started - 1 <= Latest
         /\ batch.blocks \in Nat /\ Latest = Started - 1 + batch.blocks
         /\ tailIndex \in Nat /\ headIndex \in Nat /\ headIndex <= tailIndex
         /\ tailIndex <= Begin(Started) /\ Pos(headIndex) \in Nat
         /\ Pos(headIndex) <= Started /\ Pos(headIndex) <= Pos(tailIndex)
         /\ \A p \in Int : p >= Started => Needed(p)
<1>1. tailIndex \in Nat /\ headIndex \in Nat /\ headIndex <= tailIndex
  BY HeadBelowTail DEF TypeOK
<1>2. batch.blocks \in Nat
  BY DEF TypeOK
<1>3. Started \in Nat /\ tailIndex <= Begin(Started) /\ Pos(tailIndex) <= Started
  BY <1>1, StartedIs
<1>4. Pos(headIndex) <= Pos(tailIndex) /\ Pos(headIndex) \in Nat /\ Pos(tailIndex) \in Int
  BY <1>1, PosMono, PosOfNat, Index
<1>5. \A p \in Int : p >= Started => Needed(p)
  BY <1>1, <1>3, <1>4, NeededHead
<1> QED BY <1>1, <1>2, <1>3, <1>4, <1>5 DEF Latest

\* A claimed index is below the tail.
LEMMA IndexBelow ==
  ASSUME TypeOK, TicketInv, NEW i \in Int, i < tailIndex
  PROVE  Pos(i) \in Int /\ Pos(i) < Started
<1>1. tailIndex \in Nat
  BY DEF TypeOK
<1>2. i <= tailIndex - 1 /\ tailIndex - 1 \in Int
  BY <1>1
<1>3. Pos(i) <= Pos(tailIndex - 1) /\ Pos(i) \in Int
  BY <1>2, PosMono, Index
<1> QED BY <1>1, <1>3, StartedIs

LEMMA OwnIsFinite ==
  IsFiniteSet(Own) /\ Cardinality(Own) \in Nat /\ Cardinality(Own) <= IndexSize
<1>1. Own \in SUBSET Blocks
  BY DEF Own
<1>2. IsFiniteSet(Own) /\ Cardinality(Own) <= Cardinality(Blocks) /\ Cardinality(Own) \in Nat
      /\ Cardinality(Blocks) \in Nat
  BY <1>1, IndexAssumption, FS_Subset, FS_CardinalityType
<1> QED BY <1>2, IndexAssumption, SizeAssumption

\* The blocks in use are no more than the blocks there are, nor than the entries.
LEMMA LivesFit ==
  ASSUME TypeOK, TicketInv, RingRight, NEW p \in Nat, Live(p)
  PROVE  Latest - p + 1 <= Cardinality(Own) /\ Latest - p < IndexSize
<1>1. p \in 0 .. Latest /\ Needed(p) /\ Latest \in Int /\ headIndex \in Nat
  BY Where DEF Live
<1>2. \A q \in p .. Latest : Live(q)
  BY <1>1, NeededMono DEF Live
<1> DEFINE f == [q \in p .. Latest |-> At(q)]
<1>3. f \in [p .. Latest -> Own]
  BY <1>1, <1>2 DEF RingRight
<1>4. \A q, r \in p .. Latest : f[q] = f[r] => q = r
  BY <1>1, <1>2 DEF RingRight
<1>5. IsFiniteSet(p .. Latest) /\ Cardinality(p .. Latest) = Latest - p + 1
  BY <1>1, FS_Interval
<1> HIDE DEF f
<1>6. ~(Cardinality(Own) < Cardinality(p .. Latest))
  BY <1>3, <1>4, <1>5, OwnIsFinite, FS_PigeonHole
<1> QED BY <1>1, <1>5, <1>6, OwnIsFinite, SizeAssumption

-----------------------------------------------------------------------------
(* The circle *)

\* What the invariant of the layout says until the destructor runs.
Using == SlotsRight /\ BasesRight /\ RingRight /\ FlagsRight /\ ContentsRight

LEMMA LayoutParts ==
  ASSUME LayoutInv
  PROVE  /\ ClaimRight /\ BatchRight /\ CircleRight
         /\ ppc # "destroyed" =>
               SlotsRight /\ BasesRight /\ RingRight /\ FlagsRight /\ ContentsRight
         /\ ppc = "destroyed" => tailBlock = Null /\ \A c \in Consumers : pc[c] = "idle"
  BY DEF LayoutInv

LEMMA CircleStays ==
  ASSUME CircleRight, Own' = Own, next' = next, pool' \cap other' = {},
         tailBlock' # Null => tailBlock' \in Own,
         tailBlock' = Null => Own = {},
         batch'.start # Null => batch'.start \in Own
  PROVE  CircleRight'
  BY DEF CircleRight

LEMMA CircleSame ==
  ASSUME CircleRight, UNCHANGED <<circle, places>>,
         batch'.start \in {batch.start, tailBlock, Null}
  PROVE  CircleRight'
<1>1. next' = next /\ tailBlock' = tailBlock /\ pool' = pool /\ other' = other
  BY DEF circle, places
<1>2. Own' = Own
  BY <1>1 DEF Own
<1> QED BY <1>1, <1>2, CircleStays DEF CircleRight

\* The new block becomes a part of the circle.
LEMMA CircleGrows ==
  ASSUME TypeOK, CircleRight, NEW b \in pool, pool' = pool \ {b}, other' = other,
         next' = Linked(b), tailBlock' = b, batch'.start = batch.start
  PROVE  CircleRight' /\ Own' = Own \cup {b} /\ b \notin Own /\ b \in Blocks
<1>1. b \in Blocks /\ b \notin Own /\ b # Null
  BY PointerAssumption DEF TypeOK, Own
<1>2. Own' = Own \cup {b}
  BY <1>1 DEF Own, CircleRight
<1>3. pool' \cap other' = {}
  BY DEF CircleRight
<1>4. CASE tailBlock = Null
  <2>1. Own = {} /\ next'[b] = b
    BY <1>1, <1>4 DEF CircleRight, Linked, TypeOK
  <2>2. Own' = {b}
    BY <1>2, <2>1
  <2>3. \A x \in Own' : x = b
    BY <2>2
  <2>4. \A part \in SUBSET Own' : part # {} => part = Own'
    BY <2>2
  <2> QED BY <1>1, <1>2, <1>3, <2>1, <2>2, <2>3, <2>4 DEF CircleRight
<1>5. CASE tailBlock # Null
  <2>1. tailBlock \in Own /\ tailBlock # b /\ tailBlock \in Blocks
    BY <1>1, <1>5 DEF CircleRight, Own
  <2>2. /\ next'[b] = next[tailBlock] /\ next'[tailBlock] = b
        /\ \A x \in Own : x # tailBlock => next'[x] = next[x]
    BY <1>1, <1>5, <2>1 DEF Linked, TypeOK, Own
  <2>3. /\ \A x \in Own : next[x] \in Own
        /\ \A x, y \in Own : next[x] = next[y] => x = y
    BY DEF CircleRight
  <2>4. \A x \in Own' : next'[x] \in Own'
    BY <1>2, <2>1, <2>2, <2>3
  <2>5. ASSUME NEW x \in Own', NEW y \in Own', next'[x] = next'[y]
        PROVE  x = y
    <3>1. next[tailBlock] \in Own
      BY <2>1, <2>3
    <3>2. CASE x = b \/ y = b
      BY <1>1, <1>2, <2>1, <2>2, <2>3, <2>5, <3>1, <3>2
    <3>3. CASE x # b /\ y # b
      BY <1>1, <1>2, <2>1, <2>2, <2>3, <2>5, <3>1, <3>3
    <3> QED BY <3>2, <3>3
  <2>6. ASSUME NEW part \in SUBSET Own', part # {}, \A x \in part : next'[x] \in part
        PROVE  part = Own'
    <3> DEFINE old == part \cap Own
    <3>1. old # {}
      <4>1. PICK x \in part : TRUE
        BY <2>6
      <4>2. CASE x = b
        <5>1. next[tailBlock] \in part /\ next[tailBlock] \in Own
          BY <2>1, <2>2, <2>3, <2>6, <4>2
        <5> QED BY <5>1
      <4>3. CASE x # b
        BY <1>2, <4>3
      <4> QED BY <4>2, <4>3
    <3>2. ASSUME NEW x \in old PROVE next[x] \in old
      <4>1. CASE x = tailBlock
        <5>1. b \in part
          BY <2>2, <2>6, <4>1
        <5>2. next[x] \in part
          BY <2>2, <2>6, <4>1, <5>1
        <5> QED BY <2>3, <5>2
      <4>2. CASE x # tailBlock
        <5>1. next'[x] = next[x]
          BY <2>2, <4>2
        <5> QED BY <2>3, <2>6, <5>1
      <4> QED BY <4>1, <4>2
    <3>3. old = Own
      BY <3>1, <3>2 DEF CircleRight
    <3>4. tailBlock \in part
      BY <2>1, <3>3
    <3>5. b \in part
      BY <2>2, <2>6, <3>4
    <3> QED BY <1>2, <3>3, <3>5
  <2>7. batch'.start # Null => batch'.start \in Own'
    BY <1>2 DEF CircleRight
  <2> QED BY <1>1, <1>2, <1>3, <2>4, <2>5, <2>6, <2>7 DEF CircleRight
<1> QED BY <1>1, <1>2, <1>4, <1>5

\* Following next from the tail block visits all the blocks of this producer.
LEMMA CircleIsOwn ==
  ASSUME TypeOK, CircleRight
  PROVE  Circle = Own
<1>1. CASE tailBlock = Null
  BY <1>1 DEF Circle, CircleRight
<1>2. CASE tailBlock # Null
  <2>1. tailBlock \in Own /\ Own \in SUBSET Blocks /\ Null \notin Own
    BY <1>2, PointerAssumption DEF CircleRight, Own
  <2>2. Circle \subseteq Own
    BY <2>1 DEF Circle, CircleRight
  <2>3. ASSUME NEW b \in Own, NEW visited \in SUBSET Blocks, tailBlock \in visited,
               \A x \in visited : next[x] \in visited \cup {Null}
        PROVE  b \in visited
    <3> DEFINE part == visited \cap Own
    <3>1. part # {}
      BY <2>1, <2>3
    <3>2. \A x \in part : next[x] \in part
      BY <2>1, <2>3 DEF CircleRight
    <3>3. part = Own
      BY <3>1, <3>2 DEF CircleRight
    <3> QED BY <3>3
  <2>4. Own \subseteq Circle
    BY <1>2, <2>1, <2>3 DEF Circle
  <2> QED BY <2>2, <2>4
<1> QED BY <1>1, <1>2

LEMMA OnePlace ==
  ASSUME TypeOK, LayoutInv
  PROVE  OnePlacePerBlock
<1>1. CircleRight /\ Circle = Own
  BY LayoutParts, CircleIsOwn
<1>2. ASSUME NEW b \in Blocks
      PROVE  Cardinality({p \in {<<1, pool>>, <<2, other>>, <<3, Circle>>} : b \in p[2]}) = 1
  <2> DEFINE places3 == {<<1, pool>>, <<2, other>>, <<3, Circle>>}
             here == {p \in places3 : b \in p[2]}
  <2>1. CASE b \in pool
    <3>1. b \notin other /\ b \notin Circle
      BY <1>1, <2>1 DEF CircleRight, Own
    <3>2. here = {<<1, pool>>}
      BY <2>1, <3>1
    <3> QED BY <3>2, FS_Singleton
  <2>2. CASE b \in other
    <3>1. b \notin pool /\ b \notin Circle
      BY <1>1, <2>2 DEF CircleRight, Own
    <3>2. here = {<<2, other>>}
      BY <2>2, <3>1
    <3> QED BY <3>2, FS_Singleton
  <2>3. CASE b \notin pool \cup other
    <3>1. b \in Circle
      BY <1>1, <2>3 DEF Own
    <3>2. here = {<<3, Circle>>}
      BY <2>3, <3>1
    <3> QED BY <3>2, FS_Singleton
  <2> QED BY <2>1, <2>2, <2>3
<1>3. ASSUME tailBlock # Null
      PROVE  Cardinality(Circle) >= slotsUsed /\ \E b \in Circle : next[b] = tailBlock
  <2>1. tailBlock \in Own /\ \A b \in Own : next[b] \in Own
    BY <1>1, <1>3 DEF CircleRight
  <2> DEFINE part == {next[b] : b \in Own}
  <2>2. part \in SUBSET Own /\ part # {} /\ \A x \in part : next[x] \in part
    BY <2>1
  <2>3. part = Own
    BY <1>1, <2>2 DEF CircleRight
  <2>4. \E b \in Own : next[b] = tailBlock
    BY <2>1, <2>3
  <2>5. slotsUsed <= Cardinality(Own)
    BY <1>3, LayoutParts DEF SlotsRight
  <2> QED BY <1>1, <2>4, <2>5, OwnIsFinite DEF TypeOK
<1> QED BY <1>2, <1>3 DEF OnePlacePerBlock

-----------------------------------------------------------------------------
(* The producer's steps *)

GoesOn ==
    /\ ppc = "room" /\ slotsUsed # IndexSize /\ ppc' = "requisition"
    /\ UNCHANGED <<counters, circle, contents, index, places, batch, consumer>>

Fails ==
    /\ ppc \in {"room", "requisition"} /\ Undo
    /\ UNCHANGED <<counters, next, contents, entries, front, places, consumer>>

Takes(b) ==
    /\ ppc = "requisition" /\ b \in pool /\ pool' = pool \ {b}
    /\ emptyFlags' = [emptyFlags EXCEPT ![b] = Cells]
    /\ next' = Linked(b) /\ Obtain(b) /\ slotsUsed' = slotsUsed + 1
    /\ UNCHANGED <<counters, elements, entries, front, nextFront, other, consumer>>

LEMMA ProducerCases ==
  ASSUME Producer
  PROVE  \/ \E n \in PutSizes : EnqueueStart(n)
         \/ ReuseBlock \/ NeedBlock \/ GoesOn \/ Fails \/ (\E b \in pool : Takes(b))
         \/ StoreBase \/ StoreBlock \/ StoreFront \/ WriteElements \/ Commit
<1>1. CASE CheckRoom
  BY <1>1 DEF CheckRoom, GoesOn, Fails, circle, index, Undo
<1>2. CASE Requisition
  BY <1>2 DEF Requisition, Takes
<1>3. CASE RequisitionFails
  BY <1>3 DEF RequisitionFails, Fails, Undo
<1> QED BY <1>1, <1>2, <1>3 DEF Producer

\* A call's fields.
AllBatches == [count : Nat, start : Blocks \cup {Null}, first : Blocks \cup {Null},
               front : Entries, slots : 0 .. IndexSize, blocks : Nat]

LEMMA BatchTypes ==
  ASSUME TypeOK
  PROVE  /\ batch \in AllBatches /\ batch.count \in Nat /\ batch.blocks \in Nat
         /\ batch.start \in Blocks \cup {Null} /\ batch.first \in Blocks \cup {Null}
         /\ batch.front \in Entries /\ batch.slots \in 0 .. IndexSize
  BY DEF TypeOK, AllBatches

LEMMA NoBatchIs ==
  /\ NoBatch \in AllBatches /\ NoBatch.count = 0 /\ NoBatch.blocks = 0
  /\ NoBatch.start = Null /\ NoBatch.first = Null /\ NoBatch.front = 0 /\ NoBatch.slots = 0
  BY SizeAssumption DEF NoBatch, AllBatches, Entries

LEMMA StartDoes ==
  ASSUME TypeOK, NEW n \in Nat, EnqueueStart(n)
  PROVE  /\ batch' \in AllBatches /\ batch'.count = n /\ batch'.start = tailBlock
         /\ batch'.first = Null /\ batch'.front = nextFront /\ batch'.slots = slotsUsed
         /\ batch'.blocks = 0
         /\ ppc = "idle" /\ ppc' = IF NeedsMore(n, 0) THEN "ahead" ELSE "write"
         /\ UNCHANGED <<counters, circle, contents, index, places, consumer>>
<1>1. tailBlock \in Blocks \cup {Null} /\ nextFront \in Entries /\ slotsUsed \in 0 .. IndexSize
  BY DEF TypeOK
<1>2. batch' = [NoBatch EXCEPT !.count = n, !.start = tailBlock, !.front = nextFront,
                               !.slots = slotsUsed]
  BY DEF EnqueueStart
<1>3. /\ batch' \in AllBatches /\ batch'.count = n /\ batch'.start = tailBlock
      /\ batch'.first = Null /\ batch'.front = nextFront /\ batch'.slots = slotsUsed
      /\ batch'.blocks = 0
  BY <1>1, <1>2 DEF NoBatch, AllBatches
<1> QED BY <1>3 DEF EnqueueStart

LEMMA ObtainDoes ==
  ASSUME TypeOK, NEW b \in Blocks, Obtain(b)
  PROVE  /\ batch' \in AllBatches
         /\ batch'.count = batch.count /\ batch'.start = batch.start
         /\ batch'.front = batch.front /\ batch'.slots = batch.slots
         /\ batch'.blocks = batch.blocks + 1
         /\ batch'.first = IF batch.first = Null THEN b ELSE batch.first
         /\ tailBlock' = b /\ ppc' = "base"
<1>1. /\ batch \in AllBatches /\ batch.blocks + 1 \in Nat
      /\ batch.first \in Blocks \cup {Null}
  BY BatchTypes
<1>2. PICK f \in Blocks \cup {Null} : f = IF batch.first = Null THEN b ELSE batch.first
  BY <1>1
<1>3. batch' = [batch EXCEPT !.blocks = batch.blocks + 1, !.first = f]
  BY <1>2 DEF Obtain
<1>4. /\ batch' \in AllBatches
      /\ batch'.count = batch.count /\ batch'.start = batch.start
      /\ batch'.front = batch.front /\ batch'.slots = batch.slots
      /\ batch'.blocks = batch.blocks + 1
      /\ batch'.first = f
  BY <1>1, <1>3 DEF AllBatches
<1> QED BY <1>2, <1>4 DEF Obtain

\* The block ahead of the tail block.
LEMMA ReuseDoes ==
  ASSUME TypeOK, CircleRight, ReuseBlock
  PROVE  /\ ppc = "ahead" /\ tailBlock \in Own /\ next[tailBlock] \in Own
         /\ next[tailBlock] \in Blocks /\ next[tailBlock] # batch.first
         /\ IsEmpty(next[tailBlock]) /\ Obtain(next[tailBlock])
         /\ UNCHANGED <<counters, next, contents, index, places, consumer>>
<1>1. tailBlock # Null
  BY DEF ReuseBlock, AheadIsEmpty
<1>2. tailBlock \in Own /\ next[tailBlock] \in Own
  BY <1>1 DEF CircleRight
<1>3. next[tailBlock] \in Blocks
  BY <1>2 DEF Own
<1> QED BY <1>2, <1>3 DEF ReuseBlock, AheadIsEmpty

\* The first block of a call is a live one.
LEMMA FirstIsOwn ==
  ASSUME TypeOK, TicketInv, RingRight, batch.blocks > 0
  PROVE  Live(Started) /\ batch.first = At(Started) /\ batch.first \in Own
<1>1. Started \in Nat /\ Latest \in Int /\ Latest >= Started /\ Needed(Started)
  BY Where
<1>2. Started \in 0 .. Latest /\ Live(Started)
  BY <1>1 DEF Live
<1> QED BY <1>2 DEF RingRight

LEMMA ProducerCircle ==
  ASSUME TypeOK, TicketInv, LayoutInv, Producer
  PROVE  CircleRight'
<1>0. CircleRight /\ BatchRight
  BY LayoutParts
<1>1. CASE \E n \in PutSizes : EnqueueStart(n)
  <2>1. PICK n \in PutSizes : EnqueueStart(n)
    BY <1>1
  <2>2. n \in Nat
    BY SizeAssumption
  <2> QED BY <1>0, <2>1, <2>2, StartDoes, CircleSame
<1>2. CASE ReuseBlock
  <2>1. /\ next[tailBlock] \in Own /\ next[tailBlock] \in Blocks
        /\ Obtain(next[tailBlock]) /\ next' = next /\ pool' = pool /\ other' = other
    BY <1>0, <1>2, ReuseDoes DEF places
  <2>2. tailBlock' \in Own /\ batch'.start = batch.start
    BY <2>1, ObtainDoes
  <2>3. Own' = Own /\ tailBlock' # Null
    BY <2>1, <2>2, PointerAssumption DEF Own
  <2> QED BY <1>0, <2>1, <2>2, <2>3, CircleStays DEF CircleRight
<1>3. CASE NeedBlock \/ GoesOn \/ StoreBase \/ StoreBlock \/ StoreFront \/ WriteElements
  <2>1. UNCHANGED <<circle, places, batch>>
    BY <1>3 DEF NeedBlock, GoesOn, StoreBase, StoreBlock, StoreFront, WriteElements
  <2> QED BY <1>0, <2>1, CircleSame
<1>4. CASE Commit
  <2>1. UNCHANGED <<circle, places>> /\ batch' = NoBatch
    BY <1>4 DEF Commit
  <2> QED BY <1>0, <2>1, NoBatchIs, CircleSame
<1>5. CASE Fails
  <2>1. /\ next' = next /\ pool' = pool /\ other' = other /\ batch' = NoBatch
        /\ tailBlock' = IF batch.start = Null THEN batch.first ELSE batch.start
        /\ ppc \in {"room", "requisition"}
    BY <1>5 DEF Fails, Undo, places
  <2>2. Own' = Own
    BY <2>1 DEF Own
  <2>3. batch.first # Null => batch.first \in Own
    <3>1. batch.first # Null => batch.blocks > 0
      BY <1>0, BatchTypes DEF BatchRight
    <3>2. RingRight
      BY <2>1, LayoutParts
    <3> QED BY <3>1, <3>2, FirstIsOwn
  <2>4. tailBlock' # Null => tailBlock' \in Own
    BY <1>0, <2>1, <2>3 DEF CircleRight
  <2>5. ASSUME tailBlock' = Null PROVE Own = {}
    <3>1. batch.start = Null /\ batch.first = Null
      BY <2>1, <2>5
    <3>2. batch.blocks = 0 /\ tailBlock = batch.start
      BY <1>0, <2>1, <3>1 DEF BatchRight, InBatch
    <3> QED BY <1>0, <3>1, <3>2 DEF CircleRight
  <2>6. pool' \cap other' = {}
    BY <1>0, <2>1 DEF CircleRight
  <2> QED BY <1>0, <2>1, <2>2, <2>4, <2>5, <2>6, NoBatchIs, CircleStays
<1>6. CASE \E b \in pool : Takes(b)
  <2>1. PICK b \in pool : Takes(b)
    BY <1>6
  <2>2. b \in Blocks /\ Obtain(b) /\ pool' = pool \ {b} /\ other' = other /\ next' = Linked(b)
    BY <2>1 DEF Takes, TypeOK
  <2> QED BY <1>0, <2>2, ObtainDoes, CircleGrows
<1> QED BY <1>1, <1>2, <1>3, <1>4, <1>5, <1>6, ProducerCases

LEMMA StepCircle ==
  ASSUME TypeOK, TicketInv, LayoutInv, Next
  PROVE  CircleRight'
<1>0. CircleRight /\ BatchRight
  BY LayoutParts
<1>1. CASE Producer
  BY <1>1, ProducerCircle
<1>2. CASE Others
  <2>1. UNCHANGED <<circle, batch>>
    BY <1>2 DEF Others, OtherTakes, OtherReturns, producer
  <2>2. Own' = Own /\ pool' \cap other' = {}
    BY <1>0, <1>2 DEF Others, OtherTakes, OtherReturns, Own, CircleRight
  <2>3. next' = next /\ tailBlock' = tailBlock
    BY <2>1 DEF circle
  <2> QED BY <1>0, <2>1, <2>2, <2>3, CircleStays DEF CircleRight
<1>3. CASE Destroy
  <2>1. /\ pool' = pool \cup Circle /\ tailBlock' = Null /\ other' = other /\ batch' = batch
        /\ ppc = "idle"
    BY <1>3 DEF Destroy, AllReturned
  <2>2. Own' = {} /\ pool' \cap other' = {}
    BY <1>0, <2>1, CircleIsOwn DEF Own, CircleRight
  <2>3. batch'.start = Null
    BY <1>0, <2>1, NoBatchIs DEF BatchRight, InBatch
  <2> QED BY <2>1, <2>2, <2>3 DEF CircleRight
<1>4. ASSUME NEW c \in Consumers, Consumer(c) PROVE CircleRight'
  <2>1. UNCHANGED <<circle, places, producer>>
    BY <1>4, ProducerStays
  <2> QED BY <1>0, <2>1, CircleSame DEF producer
<1> QED BY <1>1, <1>2, <1>3, <1>4, NextCases

-----------------------------------------------------------------------------
(* The claims *)

\* While these stay, so does what is needed.
LEMMA ClaimsKept ==
  ASSUME headIndex' = headIndex, Claimants' = Claimants,
         \A c \in Claimants : /\ ClaimedTo(c)' = ClaimedTo(c)
                              /\ found'[c].index = found[c].index
  PROVE  /\ \A i : NotEmptied(i)' <=> NotEmptied(i)
         /\ \A p : Needed(p)' <=> Needed(p)
         /\ \A p : Emptied(p)' = Emptied(p)
<1>1. \A i : NotEmptied(i)' <=> NotEmptied(i)
  BY DEF NotEmptied
<1>2. \A p : Needed(p)' <=> Needed(p)
  BY <1>1 DEF Needed
<1>3. \A p : Emptied(p)' = Emptied(p)
  BY <1>1 DEF Emptied
<1> QED BY <1>1, <1>2, <1>3

LEMMA ConsumersSame ==
  ASSUME UNCHANGED <<headIndex, consumer>>
  PROVE  /\ Claimants' = Claimants
         /\ \A c \in Claimants : /\ ClaimedTo(c)' = ClaimedTo(c) /\ MovedTo(c)' = MovedTo(c)
                                 /\ found'[c] = found[c] /\ pc'[c] = pc[c]
         /\ \A i : NotEmptied(i)' <=> NotEmptied(i)
         /\ \A p : Needed(p)' <=> Needed(p)
         /\ \A p : Emptied(p)' = Emptied(p)
<1>1. pc' = pc /\ ticket' = ticket /\ found' = found /\ headIndex' = headIndex
  BY DEF consumer
<1>2. /\ Claimants' = Claimants
      /\ \A c \in Claimants : /\ ClaimedTo(c)' = ClaimedTo(c) /\ MovedTo(c)' = MovedTo(c)
                              /\ found'[c] = found[c] /\ pc'[c] = pc[c]
  BY <1>1 DEF Claimants, ClaimedTo, MovedTo
<1> QED BY <1>1, <1>2, ClaimsKept

\* What does not depend on the consumers.
LEMMA ProducerSame ==
  ASSUME UNCHANGED <<tailIndex, circle, index, places, producer>>
  PROVE  /\ Started' = Started /\ Latest' = Latest /\ Own' = Own
         /\ ppc' = ppc /\ batch' = batch /\ tailBlock' = tailBlock /\ next' = next
         /\ base' = base /\ block' = block /\ front' = front /\ nextFront' = nextFront
         /\ slotsUsed' = slotsUsed
         /\ \A p : At(p)' = At(p)
         /\ \A n, k : NeedsMore(n, k)' <=> NeedsMore(n, k)
  BY DEF circle, index, entries, places, producer, Started, Latest, Own, At, NeedsMore,
         BlockStart

LEMMA ConsumerFrame ==
  ASSUME UNCHANGED <<tailIndex, circle, index, places, producer>>
  PROVE  /\ BatchRight => BatchRight'
         /\ SlotsRight => SlotsRight'
<1>1. /\ Started' = Started /\ Latest' = Latest /\ Own' = Own
      /\ ppc' = ppc /\ batch' = batch /\ tailBlock' = tailBlock
      /\ front' = front /\ nextFront' = nextFront /\ slotsUsed' = slotsUsed
      /\ \A n, k : NeedsMore(n, k)' <=> NeedsMore(n, k)
  BY ProducerSame
<1>2. BatchRight => BatchRight'
  BY <1>1 DEF BatchRight, InBatch
<1>3. SlotsRight => SlotsRight'
  BY <1>1 DEF SlotsRight
<1> QED BY <1>2, <1>3

AllFounds == [first : Nat, index : Nat, entry : Entries, block : Blocks \cup {Null},
              out : Seq(Nat)]

LEMMA FoundTypes ==
  ASSUME TypeOK, NEW c \in Consumers
  PROVE  /\ found \in [Consumers -> AllFounds] /\ found[c] \in AllFounds
         /\ found[c].first \in Nat /\ found[c].index \in Nat /\ found[c].entry \in Entries
         /\ found[c].block \in Blocks \cup {Null} /\ found[c].out \in Seq(Nat)
         /\ Len(found[c].out) \in Nat /\ MovedTo(c) \in Nat /\ ClaimedTo(c) \in Nat
         /\ ticket[c].actual \in Nat
<1>1. found \in [Consumers -> AllFounds]
  BY DEF TypeOK, AllFounds
<1>2. found[c] \in AllFounds
  BY <1>1
<1>3. /\ found[c].first \in Nat /\ found[c].index \in Nat /\ found[c].entry \in Entries
      /\ found[c].block \in Blocks \cup {Null} /\ found[c].out \in Seq(Nat)
  BY <1>2 DEF AllFounds
<1>4. Len(found[c].out) \in Nat /\ ticket[c].actual \in Nat
  BY <1>3, TicketFieldTypes
<1> QED BY <1>1, <1>2, <1>3, <1>4 DEF MovedTo, ClaimedTo

LEMMA PlacesOf ==
  ASSUME TypeOK, NEW c \in Consumers
  PROVE  /\ pc \in [Consumers -> Places]
         /\ c \in Claimants <=> pc[c] \in HandPlaces
         /\ (c \in Claimants)' <=> pc'[c] \in HandPlaces
  BY TypesOfCounters DEF CounterTypes, Claimants, HandPlaces

LEMMA ClaimFacts ==
  ASSUME TypeOK, TicketInv, ClaimRight, NEW c \in Claimants
  PROVE  /\ found[c].first <= found[c].index /\ found[c].index < ClaimedTo(c)
         /\ ClaimedTo(c) <= headIndex /\ ClaimedTo(c) <= tailIndex
         /\ MovedTo(c) = IF pc[c] = "empty"
                         THEN Min2(Base(found[c].index) + BlockSize, ClaimedTo(c))
                         ELSE found[c].index
         /\ NotEmptied(found[c].index) /\ found[c].index < tailIndex
         /\ c \in Consumers /\ ticket[c].actual > 0
<1>1. c \in Consumers
  BY DEF Claimants
<1>2. /\ found[c].first <= found[c].index /\ found[c].index < ClaimedTo(c)
      /\ ClaimedTo(c) <= headIndex
      /\ MovedTo(c) = IF pc[c] = "empty"
                      THEN Min2(Base(found[c].index) + BlockSize, ClaimedTo(c))
                      ELSE found[c].index
  BY DEF ClaimRight
<1>3. found[c].index \in Nat /\ ClaimedTo(c) \in Nat /\ headIndex \in Nat /\ tailIndex \in Nat
      /\ headIndex <= tailIndex
  BY <1>1, FoundTypes, Where
<1>4. found[c].index \in found[c].index .. ClaimedTo(c) - 1
  BY <1>2, <1>3
<1>5. NotEmptied(found[c].index)
  BY <1>4 DEF NotEmptied
<1>6. ticket[c].actual > 0
  BY <1>1, <1>2 DEF TicketInv, TicketFields, Claimants
<1> QED BY <1>1, <1>2, <1>3, <1>5, <1>6

\* Where a step of one consumer leaves the claims of all.
LEMMA ClaimsOfOthers ==
  ASSUME TypeOK, NEW c \in Consumers, Consumer(c), NEW d \in Consumers, d # c
  PROVE  /\ d \in Claimants <=> d \in Claimants'
         /\ found'[d] = found[d] /\ pc'[d] = pc[d] /\ ticket'[d] = ticket[d]
         /\ ClaimedTo(d)' = ClaimedTo(d) /\ MovedTo(d)' = MovedTo(d)
<1>1. found'[d] = found[d] /\ pc'[d] = pc[d] /\ ticket'[d] = ticket[d]
  BY OthersStay
<1> QED BY <1>1 DEF Claimants, ClaimedTo, MovedTo

\* The steps before a claim.
Early(c) ==
    \/ \E n \in TakeSizes : LoadTail(c, n)
    \/ LoadOvercommit(c) \/ CheckAvailable(c) \/ TakeTickets(c) \/ Recheck(c) \/ GiveUp(c)

LEMMA EarlyDoes ==
  ASSUME TypeOK, ClaimRight, NEW c \in Consumers, Early(c)
  PROVE  /\ c \notin Claimants /\ Claimants' = Claimants /\ found' = found
         /\ UNCHANGED <<headIndex, contents>>
         /\ \A d \in Claimants : /\ ClaimedTo(d)' = ClaimedTo(d) /\ MovedTo(d)' = MovedTo(d)
                                 /\ pc'[d] = pc[d]
<1>1. pc[c] \notin HandPlaces /\ pc'[c] \notin HandPlaces
      /\ (found' = found \/ found' = [found EXCEPT ![c] = NotFound])
      /\ UNCHANGED <<headIndex, contents>>
  <2> USE DEF HandPlaces, Goto, Return, counters, TypeOK
  <2>1. CASE \E n \in TakeSizes : LoadTail(c, n)
    BY <2>1 DEF LoadTail
  <2>2. CASE LoadOvercommit(c)
    BY <2>2 DEF LoadOvercommit
  <2>3. CASE CheckAvailable(c)
    BY <2>3 DEF CheckAvailable
  <2>4. CASE TakeTickets(c)
    BY <2>4 DEF TakeTickets
  <2>5. CASE Recheck(c)
    BY <2>5 DEF Recheck
  <2>6. CASE GiveUp(c)
    BY <2>6 DEF GiveUp
  <2> QED BY <2>1, <2>2, <2>3, <2>4, <2>5, <2>6 DEF Early
<1>2. c \notin Claimants /\ c \notin Claimants'
  BY <1>1 DEF Claimants, HandPlaces
<1>3. found[c] = NotFound
  BY <1>2 DEF ClaimRight
<1>4. found' = found
  BY <1>1, <1>3, FoundTypes
<1>5. Consumer(c)
  BY DEF Early, Consumer
<1>6. Claimants' = Claimants
  <2>1. Claimants \subseteq Consumers /\ Claimants' \subseteq Consumers
    BY DEF Claimants
  <2> QED BY <1>2, <1>5, <2>1, ClaimsOfOthers
<1>7. ASSUME NEW d \in Claimants
      PROVE  ClaimedTo(d)' = ClaimedTo(d) /\ MovedTo(d)' = MovedTo(d) /\ pc'[d] = pc[d]
  <2>1. d \in Consumers /\ d # c
    BY <1>2 DEF Claimants
  <2> QED BY <1>5, <2>1, ClaimsOfOthers
<1> QED BY <1>1, <1>2, <1>4, <1>6, <1>7

\* The steps that look a block up.
LooksUp(c) == LoadFront(c) \/ LoadBase(c) \/ LoadBlock(c)

LEMMA LookupDoes ==
  ASSUME TypeOK, NEW c \in Consumers, LooksUp(c)
  PROVE  /\ pc[c] \in {"front", "base", "block"} /\ pc'[c] \in {"base", "block", "move"}
         /\ c \in Claimants /\ Claimants' = Claimants
         /\ UNCHANGED <<headIndex, contents, ticket>>
         /\ found'[c].first = found[c].first /\ found'[c].index = found[c].index
         /\ found'[c].out = found[c].out
         /\ \A d \in Consumers : /\ ClaimedTo(d)' = ClaimedTo(d) /\ MovedTo(d)' = MovedTo(d)
                                 /\ d # c => found'[d] = found[d] /\ pc'[d] = pc[d]
<1>0. Consumer(c)
  BY DEF LooksUp, Consumer
<1>1. /\ pc[c] \in {"front", "base", "block"} /\ pc'[c] \in {"base", "block", "move"}
      /\ UNCHANGED <<headIndex, contents, ticket>>
  BY PlacesOf DEF LooksUp, LoadFront, LoadBase, LoadBlock, Goto, counters
<1>2. /\ found'[c].first = found[c].first /\ found'[c].index = found[c].index
      /\ found'[c].out = found[c].out
  <2>1. found \in [Consumers -> AllFounds] /\ found[c] \in AllFounds
    BY FoundTypes
  <2>2. PICK e, b : found' = [found EXCEPT ![c].entry = e] \/ found' = [found EXCEPT ![c].block = b]
    BY DEF LooksUp, LoadFront, LoadBase, LoadBlock
  <2>3. found'[c] = [found[c] EXCEPT !.entry = e] \/ found'[c] = [found[c] EXCEPT !.block = b]
    BY <2>1, <2>2
  <2> QED BY <2>1, <2>3 DEF AllFounds
<1>3. c \in Claimants /\ c \in Claimants'
  BY <1>1 DEF Claimants
<1>4. Claimants' = Claimants
  <2>1. Claimants \subseteq Consumers /\ Claimants' \subseteq Consumers
    BY DEF Claimants
  <2> QED BY <1>0, <1>3, <2>1, ClaimsOfOthers
<1>5. \A d \in Consumers : /\ ClaimedTo(d)' = ClaimedTo(d) /\ MovedTo(d)' = MovedTo(d)
                           /\ d # c => found'[d] = found[d] /\ pc'[d] = pc[d]
  BY <1>0, <1>1, <1>2, ClaimsOfOthers DEF ClaimedTo, MovedTo
<1> QED BY <1>1, <1>2, <1>3, <1>4, <1>5

LEMMA ClaimsAt ==
  ASSUME TypeOK, TicketInv, ClaimRight, NEW c \in Consumers, Claim(c)
  PROVE  /\ c \notin Claimants /\ Claimants' = Claimants \cup {c} /\ pc'[c] = "front"
         /\ found'[c].first = headIndex /\ found'[c].index = headIndex
         /\ found'[c].out = <<>> /\ found'[c] \in AllFounds
         /\ ticket[c].actual \in Nat /\ ticket[c].actual > 0
         /\ ticket'[c].actual = ticket[c].actual
         /\ headIndex' = headIndex + ticket[c].actual /\ headIndex' <= tailIndex
         /\ MovedTo(c)' = headIndex /\ ClaimedTo(c)' = headIndex'
         /\ UNCHANGED contents
         /\ \A d \in Claimants : /\ ClaimedTo(d)' = ClaimedTo(d) /\ MovedTo(d)' = MovedTo(d)
                                 /\ found'[d] = found[d] /\ pc'[d] = pc[d] /\ d # c
<1>0. Consumer(c)
  BY DEF Consumer
<1>1. /\ pc[c] = "claim" /\ pc'[c] = "front" /\ headIndex' = headIndex + ticket[c].actual
      /\ UNCHANGED contents
  BY PlacesOf DEF Claim, Goto
<1>2. c \notin Claimants /\ c \in Claimants'
  BY <1>1 DEF Claimants
<1>3. Claimants' = Claimants \cup {c}
  <2>1. Claimants \subseteq Consumers /\ Claimants' \subseteq Consumers
    BY DEF Claimants
  <2> QED BY <1>0, <1>2, <2>1, ClaimsOfOthers
<1>4. found[c] = NotFound
  BY <1>2 DEF ClaimRight
<1>5. headIndex \in Nat /\ ticket[c].actual \in Nat /\ ticket[c].actual > 0
      /\ headIndex + ticket[c].actual <= tailIndex
  BY <1>1, HeadBelowTail, TicketFieldTypes DEF TypeOK, TicketInv, TicketFields
<1>6. found'[c] = [NotFound EXCEPT !.first = headIndex, !.index = headIndex]
  <2>1. found' = [found EXCEPT ![c].first = headIndex, ![c].index = headIndex]
    BY DEF Claim
  <2>2. found \in [Consumers -> AllFounds]
    BY FoundTypes
  <2> QED BY <1>4, <2>1, <2>2
<1>7. /\ found'[c].first = headIndex /\ found'[c].index = headIndex
      /\ found'[c].out = <<>> /\ found'[c] \in AllFounds
  <2>1. 0 \in Entries /\ <<>> \in Seq(Nat)
    BY SizeAssumption DEF Entries
  <2>2. found'[c] = [first |-> headIndex, index |-> headIndex, entry |-> 0, block |-> Null,
                     out |-> <<>>]
    BY <1>6 DEF NotFound
  <2> QED BY <1>5, <2>1, <2>2 DEF AllFounds
<1>8. ticket'[c].actual = ticket[c].actual
  BY ClaimDoes DEF TypeOK
<1>9. MovedTo(c)' = headIndex /\ ClaimedTo(c)' = headIndex'
  BY <1>1, <1>5, <1>7, <1>8 DEF MovedTo, ClaimedTo
<1>10. ASSUME NEW d \in Claimants
       PROVE  /\ ClaimedTo(d)' = ClaimedTo(d) /\ MovedTo(d)' = MovedTo(d)
              /\ found'[d] = found[d] /\ pc'[d] = pc[d] /\ d # c
  <2>1. d \in Consumers /\ d # c
    BY <1>2 DEF Claimants
  <2> QED BY <1>0, <2>1, ClaimsOfOthers
<1> QED BY <1>1, <1>2, <1>3, <1>5, <1>7, <1>8, <1>9, <1>10

\* A claim changes nothing in what is needed or present.
LEMMA ClaimNeeds ==
  ASSUME TypeOK, TicketInv, ClaimRight, NEW c \in Consumers, Claim(c)
  PROVE  /\ \A i \in Int : NotEmptied(i)' <=> NotEmptied(i)
         /\ \A p \in Int : Needed(p)' <=> Needed(p)
         /\ \A p \in Int : Emptied(p)' = Emptied(p)
         /\ \A i \in Int : Present(i)' <=> Present(i)
<1>0. headIndex \in Nat /\ tailIndex \in Nat /\ headIndex' \in Nat
      /\ tailIndex' = tailIndex /\ ppc' = ppc /\ batch' = batch
      /\ headIndex <= headIndex' /\ headIndex' <= tailIndex
  BY ClaimsAt, Where, ProducerStays DEF producer, Consumer
<1>1. /\ Claimants' = Claimants \cup {c} /\ c \notin Claimants
      /\ found'[c].index = headIndex /\ ClaimedTo(c)' = headIndex' /\ MovedTo(c)' = headIndex
      /\ \A d \in Claimants : /\ ClaimedTo(d)' = ClaimedTo(d) /\ MovedTo(d)' = MovedTo(d)
                              /\ found'[d] = found[d]
  BY ClaimsAt
<1>2. ASSUME NEW i \in Int PROVE NotEmptied(i)' <=> NotEmptied(i)
  <2>1. NotEmptied(i)' <=> \/ i >= headIndex'
                           \/ i \in headIndex .. headIndex' - 1
                           \/ \E d \in Claimants : i \in found[d].index .. ClaimedTo(d) - 1
    BY <1>1 DEF NotEmptied
  <2> QED BY <1>0, <2>1 DEF NotEmptied
<1>3. ASSUME NEW i \in Int PROVE Present(i)' <=> Present(i)
  <2>1. Present(i)' <=>
           \/ i \in headIndex' .. tailIndex - 1
           \/ ppc = "commit" /\ i \in tailIndex .. tailIndex + batch.count - 1
           \/ i \in headIndex .. headIndex' - 1
           \/ \E d \in Claimants : i \in MovedTo(d) .. ClaimedTo(d) - 1
    BY <1>0, <1>1 DEF Present
  <2>2. i \in headIndex .. tailIndex - 1 <=>
           i \in headIndex' .. tailIndex - 1 \/ i \in headIndex .. headIndex' - 1
    <3>1. PICK h \in Nat, g \in Nat, t \in Nat :
             h = headIndex /\ g = headIndex' /\ t = tailIndex /\ h <= g /\ g <= t
      BY <1>0
    <3>2. i \in h .. t - 1 => i \in g .. t - 1 \/ i \in h .. g - 1
      <4>1. CASE i < g
        BY <4>1
      <4>2. CASE g <= i
        BY <4>2
      <4> QED BY <4>1, <4>2
    <3>3. i \in g .. t - 1 => i \in h .. t - 1
      BY <3>1
    <3>4. i \in h .. g - 1 => i \in h .. t - 1
      <4>1. g <= t
        BY <3>1
      <4>2. ASSUME i \in h .. g - 1 PROVE h <= i /\ i <= t - 1
        BY <4>1, <4>2
      <4> QED BY <4>2
    <3> QED BY <3>1, <3>2, <3>3, <3>4
  <2> QED BY <2>1, <2>2 DEF Present
<1>4. ASSUME NEW p \in Int PROVE Needed(p)' <=> Needed(p)
  <2>1. Needed(p) <=> \E i \in Nat : NotEmptied(i) /\ Pos(i) <= p
    BY <1>0, NeededIs
  <2>2. Needed(p)' <=> \E i \in 0 .. headIndex' : NotEmptied(i) /\ Pos(i) <= p
    BY <1>0, <1>2 DEF Needed
  <2>3. ASSUME NEW i \in Nat, NotEmptied(i), Pos(i) <= p
        PROVE  \E k \in 0 .. headIndex' : NotEmptied(k) /\ Pos(k) <= p
    <3>1. CASE i <= headIndex'
      BY <2>3, <3>1, <1>0
    <3>2. CASE i > headIndex'
      <4>1. Pos(headIndex') <= Pos(i) /\ Pos(headIndex') \in Int /\ Pos(i) \in Int
        BY <1>0, <3>2, PosMono, Index
      <4>2. NotEmptied(headIndex') /\ headIndex' \in 0 .. headIndex'
        BY <1>0 DEF NotEmptied
      <4> QED BY <2>3, <4>1, <4>2
    <3> QED BY <3>1, <3>2, <1>0
  <2> QED BY <1>0, <2>1, <2>2, <2>3
<1>5. ASSUME NEW p \in Int PROVE Emptied(p)' = Emptied(p)
  <2>1. \A j \in Cells : BlockSize * p + j \in Int
    BY Begins DEF Begin, Cells
  <2> QED BY <1>2, <2>1 DEF Emptied
<1> QED BY <1>2, <1>3, <1>4, <1>5

\* How many elements of the block a step moves, and up to where.
LEMMA MoveDoes ==
  ASSUME TypeOK, NEW c \in Consumers, MoveElements(c),
         NEW to, to = Min2(Base(found[c].index) + BlockSize, ClaimedTo(c))
  PROVE  /\ pc[c] = "move" /\ pc'[c] = "empty" /\ c \in Claimants /\ Claimants' = Claimants
         /\ UNCHANGED <<headIndex, ticket, emptyFlags>>
         /\ found'[c].first = found[c].first /\ found'[c].index = found[c].index
         /\ found'[c].entry = found[c].entry /\ found'[c].block = found[c].block
         /\ found'[c].out = found[c].out \o
               [k \in 1 .. to - found[c].index |->
                   elements[found[c].block][Cell(found[c].index) + k - 1]]
         /\ elements' = [elements EXCEPT ![found[c].block] =
               [i \in Cells |-> IF Base(found[c].index) + i \in found[c].index .. to - 1
                                THEN NoMessage ELSE elements[found[c].block][i]]]
         /\ \A d \in Consumers : /\ ClaimedTo(d)' = ClaimedTo(d)
                                 /\ d # c => /\ MovedTo(d)' = MovedTo(d)
                                             /\ found'[d] = found[d] /\ pc'[d] = pc[d]
<1>0. Consumer(c)
  BY DEF Consumer
<1>1. /\ pc[c] = "move" /\ pc'[c] = "empty"
      /\ UNCHANGED <<headIndex, ticket, emptyFlags>>
  BY PlacesOf DEF MoveElements, Goto, counters
<1>2. PICK more : more = [k \in 1 .. to - found[c].index |->
                             elements[found[c].block][Cell(found[c].index) + k - 1]]
  OBVIOUS
<1>3. found' = [found EXCEPT ![c].out = @ \o more]
  BY <1>2 DEF MoveElements
<1>4. found'[c] = [found[c] EXCEPT !.out = found[c].out \o more]
  BY <1>3, FoundTypes
<1>5. /\ found'[c].first = found[c].first /\ found'[c].index = found[c].index
      /\ found'[c].entry = found[c].entry /\ found'[c].block = found[c].block
      /\ found'[c].out = found[c].out \o more
  BY <1>4, FoundTypes DEF AllFounds
<1>6. elements' = [elements EXCEPT ![found[c].block] =
               [i \in Cells |-> IF Base(found[c].index) + i \in found[c].index .. to - 1
                                THEN NoMessage ELSE elements[found[c].block][i]]]
  BY DEF MoveElements
<1>7. c \in Claimants /\ c \in Claimants'
  BY <1>1 DEF Claimants
<1>8. Claimants' = Claimants
  <2>1. Claimants \subseteq Consumers /\ Claimants' \subseteq Consumers
    BY DEF Claimants
  <2> QED BY <1>0, <1>7, <2>1, ClaimsOfOthers
<1>9. \A d \in Consumers : /\ ClaimedTo(d)' = ClaimedTo(d)
                           /\ d # c => /\ MovedTo(d)' = MovedTo(d)
                                       /\ found'[d] = found[d] /\ pc'[d] = pc[d]
  BY <1>0, <1>1, <1>5, ClaimsOfOthers DEF ClaimedTo
<1> QED BY <1>1, <1>2, <1>5, <1>6, <1>7, <1>8, <1>9

\* A block is left: for the next one, or with all that was claimed.
LEMMA SetEmptyDoes ==
  ASSUME TypeOK, NEW c \in Consumers, SetEmpty(c)
  PROVE  /\ pc[c] = "empty" /\ c \in Claimants
         /\ UNCHANGED <<headIndex, elements>>
         /\ emptyFlags' = [emptyFlags EXCEPT ![found[c].block] =
               emptyFlags[found[c].block]
                  \cup {Cell(i) : i \in found[c].index .. MovedTo(c) - 1}]
         /\ \/ /\ MovedTo(c) = ClaimedTo(c) /\ pc'[c] = "idle"
               /\ Claimants' = Claimants \ {c} /\ found'[c] = NotFound
            \/ /\ MovedTo(c) # ClaimedTo(c) /\ pc'[c] = "block"
               /\ Claimants' = Claimants /\ ticket' = ticket
               /\ found'[c].first = found[c].first /\ found'[c].index = MovedTo(c)
               /\ found'[c].entry = EntryAfter(found[c].entry)
               /\ found'[c].block = found[c].block /\ found'[c].out = found[c].out
               /\ ClaimedTo(c)' = ClaimedTo(c) /\ MovedTo(c)' = MovedTo(c)
         /\ \A d \in Consumers : d # c =>
               /\ ClaimedTo(d)' = ClaimedTo(d) /\ MovedTo(d)' = MovedTo(d)
               /\ found'[d] = found[d] /\ pc'[d] = pc[d]
<1>0. Consumer(c)
  BY DEF Consumer
<1>1. /\ pc[c] = "empty" /\ UNCHANGED <<headIndex, elements>>
      /\ emptyFlags' = [emptyFlags EXCEPT ![found[c].block] =
               emptyFlags[found[c].block]
                  \cup {Cell(i) : i \in found[c].index .. MovedTo(c) - 1}]
  BY DEF SetEmpty, Goto, counters
<1>2. Claimants \subseteq Consumers /\ Claimants' \subseteq Consumers /\ c \in Claimants
  BY <1>1 DEF Claimants
<1>3. CASE MovedTo(c) = ClaimedTo(c)
  <2>1. pc'[c] = "idle" /\ found'[c] = NotFound
    BY <1>3, PlacesOf, FoundTypes DEF SetEmpty, Goto, Return
  <2>2. c \notin Claimants'
    BY <2>1 DEF Claimants
  <2> QED BY <1>0, <1>1, <1>2, <1>3, <2>1, <2>2, ClaimsOfOthers
<1>4. CASE MovedTo(c) # ClaimedTo(c)
  <2>1. pc'[c] = "block" /\ ticket' = ticket
    BY <1>4, PlacesOf DEF SetEmpty, Goto
  <2>2. found' = [found EXCEPT ![c].index = MovedTo(c), ![c].entry = EntryAfter(@)]
    BY <1>4 DEF SetEmpty
  <2>3. found'[c] = [found[c] EXCEPT !.index = MovedTo(c),
                                     !.entry = EntryAfter(found[c].entry)]
    BY <2>2, FoundTypes
  <2>4. /\ found'[c].first = found[c].first /\ found'[c].index = MovedTo(c)
        /\ found'[c].entry = EntryAfter(found[c].entry)
        /\ found'[c].block = found[c].block /\ found'[c].out = found[c].out
    BY <2>3, FoundTypes DEF AllFounds
  <2>5. c \in Claimants'
    BY <1>2, <2>1 DEF Claimants
  <2>6. ClaimedTo(c)' = ClaimedTo(c) /\ MovedTo(c)' = MovedTo(c)
    BY <2>1, <2>4 DEF ClaimedTo, MovedTo
  <2>7. Claimants' = Claimants
    BY <1>0, <1>2, <2>5, ClaimsOfOthers
  <2> QED BY <1>0, <1>1, <1>2, <1>4, <2>1, <2>4, <2>6, <2>7, ClaimsOfOthers
<1> QED BY <1>3, <1>4

-----------------------------------------------------------------------------
(* The claims stay what they are *)

LEMMA ClaimsSame ==
  ASSUME ClaimRight, UNCHANGED headIndex, Claimants' = Claimants, found' = found,
         \A d \in Claimants : /\ ClaimedTo(d)' = ClaimedTo(d) /\ MovedTo(d)' = MovedTo(d)
                              /\ pc'[d] = pc[d]
  PROVE  ClaimRight'
  BY DEF ClaimRight

LEMMA EarlyClaims ==
  ASSUME TypeOK, ClaimRight, NEW c \in Consumers, Early(c)
  PROVE  ClaimRight'
  BY EarlyDoes, ClaimsSame

LEMMA LookupClaims ==
  ASSUME TypeOK, ClaimRight, NEW c \in Consumers, LooksUp(c)
  PROVE  ClaimRight'
<1>1. /\ pc[c] \in {"front", "base", "block"} /\ pc'[c] \in {"base", "block", "move"}
      /\ c \in Claimants /\ Claimants' = Claimants /\ headIndex' = headIndex
      /\ found'[c].first = found[c].first /\ found'[c].index = found[c].index
      /\ found'[c].out = found[c].out
      /\ \A d \in Consumers : /\ ClaimedTo(d)' = ClaimedTo(d) /\ MovedTo(d)' = MovedTo(d)
                              /\ d # c => found'[d] = found[d] /\ pc'[d] = pc[d]
  BY LookupDoes
<1>2. Claimants \subseteq Consumers
  BY DEF Claimants
<1>3. \A d \in Consumers \ Claimants : found'[d] = NotFound
  BY <1>1 DEF ClaimRight
<1>4. ASSUME NEW d \in Claimants
      PROVE  /\ found'[d].first <= found'[d].index
             /\ found'[d].index < ClaimedTo(d)' /\ ClaimedTo(d)' <= headIndex'
             /\ MovedTo(d)' = IF pc'[d] = "empty"
                              THEN Min2(Base(found'[d].index) + BlockSize, ClaimedTo(d)')
                              ELSE found'[d].index
             /\ found'[d].out = [k \in 1 .. Len(found'[d].out) |-> found'[d].first + k]
  BY <1>1, <1>2 DEF ClaimRight
<1>5. \A d, e \in Claimants : d # e =>
         ClaimedTo(d)' <= found'[e].index \/ ClaimedTo(e)' <= found'[d].index
  BY <1>1, <1>2 DEF ClaimRight
<1> QED BY <1>1, <1>3, <1>4, <1>5 DEF ClaimRight

LEMMA ClaimClaims ==
  ASSUME TypeOK, TicketInv, ClaimRight, NEW c \in Consumers, Claim(c)
  PROVE  ClaimRight'
<1>1. /\ c \notin Claimants /\ Claimants' = Claimants \cup {c} /\ pc'[c] = "front"
      /\ found'[c].first = headIndex /\ found'[c].index = headIndex
      /\ found'[c].out = <<>>
      /\ ticket[c].actual \in Nat /\ ticket[c].actual > 0
      /\ headIndex' = headIndex + ticket[c].actual
      /\ MovedTo(c)' = headIndex /\ ClaimedTo(c)' = headIndex'
      /\ \A d \in Claimants : /\ ClaimedTo(d)' = ClaimedTo(d) /\ MovedTo(d)' = MovedTo(d)
                              /\ found'[d] = found[d] /\ pc'[d] = pc[d] /\ d # c
  BY ClaimsAt
<1>2. Claimants \subseteq Consumers /\ headIndex \in Nat
  BY DEF Claimants, TypeOK
<1>3. \A d \in Consumers \ Claimants' : found'[d] = NotFound
  <2>1. Consumer(c)
    BY DEF Consumer
  <2> QED BY <1>1, <2>1, ClaimsOfOthers DEF ClaimRight
<1>4. /\ found'[c].first <= found'[c].index /\ found'[c].index < ClaimedTo(c)'
      /\ ClaimedTo(c)' <= headIndex' /\ MovedTo(c)' = found'[c].index
  BY <1>1, <1>2
<1>5. found'[c].out = [k \in 1 .. Len(found'[c].out) |-> found'[c].first + k]
  BY <1>1
<1>6. ASSUME NEW d \in Claimants
      PROVE  /\ found'[d].first <= found'[d].index
             /\ found'[d].index < ClaimedTo(d)' /\ ClaimedTo(d)' <= headIndex'
             /\ ClaimedTo(d)' <= found'[c].index
             /\ MovedTo(d)' = IF pc'[d] = "empty"
                              THEN Min2(Base(found'[d].index) + BlockSize, ClaimedTo(d)')
                              ELSE found'[d].index
             /\ found'[d].out = [k \in 1 .. Len(found'[d].out) |-> found'[d].first + k]
  <2>1. ClaimedTo(d) \in Nat
    BY <1>2, FoundTypes
  <2>2. /\ found[d].first <= found[d].index
        /\ found[d].index < ClaimedTo(d) /\ ClaimedTo(d) <= headIndex
        /\ MovedTo(d) = IF pc[d] = "empty"
                        THEN Min2(Base(found[d].index) + BlockSize, ClaimedTo(d))
                        ELSE found[d].index
        /\ found[d].out = [k \in 1 .. Len(found[d].out) |-> found[d].first + k]
    BY DEF ClaimRight
  <2>3. ClaimedTo(d) <= headIndex'
    BY <1>1, <1>2, <2>1, <2>2
  <2> QED BY <1>1, <2>2, <2>3
<1>7. \A d, e \in Claimants' : d # e =>
         ClaimedTo(d)' <= found'[e].index \/ ClaimedTo(e)' <= found'[d].index
  <2>1. ASSUME NEW d \in Claimants, NEW e \in Claimants, d # e
        PROVE  ClaimedTo(d)' <= found'[e].index \/ ClaimedTo(e)' <= found'[d].index
    <3>1. ClaimedTo(d) <= found[e].index \/ ClaimedTo(e) <= found[d].index
      BY <2>1 DEF ClaimRight
    <3> QED BY <1>1, <3>1
  <2>2. \A d \in Claimants : ClaimedTo(d)' <= found'[c].index
    BY <1>6
  <2> QED BY <1>1, <2>1, <2>2
<1> QED BY <1>1, <1>3, <1>4, <1>5, <1>6, <1>7 DEF ClaimRight

\* One run of numbers and the next.
LEMMA RunsJoin ==
  ASSUME NEW a \in Nat, NEW n \in Nat, NEW l \in Nat
  PROVE  /\ [k \in 1 .. n |-> a + k] \o [k \in 1 .. l |-> a + n + k]
               = [k \in 1 .. n + l |-> a + k]
         /\ [k \in 1 .. n + l |-> a + k] \in Seq(Nat)
         /\ Len([k \in 1 .. n + l |-> a + k]) = n + l
<1> DEFINE s == [k \in 1 .. n |-> a + k]
           t == [k \in 1 .. l |-> a + n + k]
           u == [k \in 1 .. n + l |-> a + k]
<1>1. /\ s \in Seq(Nat) /\ Len(s) = n /\ \A k \in 1 .. n : s[k] = a + k
      /\ t \in Seq(Nat) /\ Len(t) = l /\ \A k \in 1 .. l : t[k] = a + n + k
      /\ u \in Seq(Nat) /\ Len(u) = n + l /\ \A k \in 1 .. n + l : u[k] = a + k
  OBVIOUS
<1> HIDE DEF s, t, u
<1>2. /\ s \o t \in Seq(Nat) /\ Len(s \o t) = n + l
      /\ \A k \in 1 .. n + l : (s \o t)[k] = IF k <= n THEN s[k] ELSE t[k - n]
  BY <1>1, ConcatProperties
<1>3. ASSUME NEW k \in 1 .. n + l PROVE (s \o t)[k] = u[k]
  <2>1. CASE k <= n
    <3>1. k \in 1 .. n
      BY <2>1
    <3> QED BY <1>1, <1>2, <2>1, <3>1
  <2>2. CASE k > n
    <3>1. k - n \in 1 .. l /\ a + n + (k - n) = a + k
      BY <2>2
    <3>2. (s \o t)[k] = t[k - n]
      BY <1>2, <2>2
    <3> QED BY <1>1, <3>1, <3>2
  <2>3. k <= n \/ k > n
    OBVIOUS
  <2> QED BY <2>1, <2>2, <2>3, Zenon
<1>4. s \o t = u
  BY <1>1, <1>2, <1>3, SeqEqual
<1> QED BY <1>1, <1>4 DEF s, t, u

\* The index after the elements that a step moves.
MoveEnd(c) == Min2(Base(found[c].index) + BlockSize, ClaimedTo(c))

\* They are of one block, in cells that follow one another.
LEMMA MoveEnds ==
  ASSUME TypeOK, TicketInv, ClaimRight, NEW c \in Claimants
  PROVE  /\ MoveEnd(c) \in Nat /\ found[c].index < MoveEnd(c) /\ MoveEnd(c) <= ClaimedTo(c)
         /\ \A i \in found[c].index .. MoveEnd(c) - 1 :
               /\ i \in Nat /\ Pos(i) = Pos(found[c].index)
               /\ Cell(i) = Cell(found[c].index) + (i - found[c].index)
               /\ Cell(i) \in Cells /\ Base(found[c].index) + Cell(i) = i
         /\ \A j \in Cells : Base(found[c].index) + j \in found[c].index .. MoveEnd(c) - 1 <=>
               \E i \in found[c].index .. MoveEnd(c) - 1 : Cell(i) = j
<1>1. /\ found[c].index \in Nat /\ ClaimedTo(c) \in Nat /\ found[c].index < ClaimedTo(c)
      /\ BlockSize \in Nat /\ BlockSize > 0
  BY ClaimFacts, FoundTypes, SizeAssumption
<1>2. PICK f \in Nat, t \in Nat, p \in Int, b \in Int :
         /\ f = found[c].index /\ t = ClaimedTo(c) /\ p = Pos(f) /\ b = Begin(p)
         /\ Base(f) = b /\ b <= f /\ f < b + BlockSize /\ Cell(f) = f - b
  <2>1. /\ Pos(found[c].index) \in Int
        /\ Base(found[c].index) = Begin(Pos(found[c].index))
        /\ Begin(Pos(found[c].index)) <= found[c].index
        /\ found[c].index < Begin(Pos(found[c].index)) + BlockSize
        /\ Begin(Pos(found[c].index)) \in Int
    BY <1>1, Index
  <2>2. Cell(found[c].index) = found[c].index - Begin(Pos(found[c].index))
    BY <1>1, <2>1, PosIs
  <2>3. PICK f \in Nat, t \in Nat : f = found[c].index /\ t = ClaimedTo(c)
    BY <1>1
  <2>4. PICK p \in Int, b \in Int : p = Pos(f) /\ b = Begin(p)
    BY <2>1, <2>3
  <2>5. Base(f) = b /\ b <= f /\ f < b + BlockSize /\ Cell(f) = f - b
    BY <2>1, <2>2, <2>3, <2>4
  <2> QED BY <2>3, <2>4, <2>5
<1>3. PICK m \in Nat : m = MoveEnd(c) /\ f < m /\ m <= t /\ m <= b + BlockSize
  <2>1. MoveEnd(c) = IF b + BlockSize < t THEN b + BlockSize ELSE t
    BY <1>2 DEF MoveEnd, Min2
  <2> QED BY <1>1, <1>2, <2>1
<1>4. ASSUME NEW i \in f .. m - 1
      PROVE  i \in Nat /\ Pos(i) = p /\ Cell(i) = i - b /\ Cell(i) \in Cells
  <2>0. b <= f /\ m <= b + BlockSize /\ BlockSize \in Nat
    BY <1>1, <1>2, <1>3
  <2>1. i \in Int /\ b <= i /\ i < b + BlockSize /\ i \in Nat
    BY <2>0
  <2> QED BY <1>2, <2>1, PosIs, Index
<1>5. ASSUME NEW j \in Cells
      PROVE  b + j \in f .. m - 1 <=> \E i \in f .. m - 1 : Cell(i) = j
  <2>1. b + j \in f .. m - 1 => Cell(b + j) = j
    <3>1. j \in Int
      BY DEF Cells
    <3> QED BY <1>2, <1>4, <3>1
  <2>2. ASSUME NEW i \in f .. m - 1, Cell(i) = j PROVE b + j = i
    BY <1>2, <1>4, <2>2
  <2> QED BY <2>1, <2>2
<1>6. \A i \in f .. m - 1 : /\ i \in Nat /\ Pos(i) = p
                            /\ Cell(i) = Cell(f) + (i - f)
                            /\ Cell(i) \in Cells /\ b + Cell(i) = i
  BY <1>2, <1>4
<1> QED BY <1>2, <1>3, <1>5, <1>6

\* What a step moves out.
LEMMA MovesRight ==
  ASSUME TypeOK, TicketInv, LayoutInv, NEW c \in Consumers, MoveElements(c)
  PROVE  /\ found'[c].out = [k \in 1 .. Len(found'[c].out) |-> found[c].first + k]
         /\ Len(found'[c].out) = MoveEnd(c) - found[c].first
         /\ found[c].out = [k \in 1 .. Len(found[c].out) |-> found[c].first + k]
         /\ found[c].first + Len(found[c].out) = found[c].index
         /\ found'[c].out \in Seq(Nat) /\ found[c].block \in Blocks
<1>1. /\ pc[c] = "move" /\ c \in Claimants
      /\ found'[c].out = found[c].out \o
            [k \in 1 .. MoveEnd(c) - found[c].index |->
                elements[found[c].block][Cell(found[c].index) + k - 1]]
  BY MoveDoes DEF MoveEnd
<1>2. ClaimRight /\ BasesRight /\ ContentsRight /\ RingRight
  BY <1>1, LayoutParts
<1>3. PICK f \in Nat, n \in Nat, a \in Nat, m \in Nat :
         /\ f = found[c].index /\ n = Len(found[c].out) /\ a = found[c].first
         /\ m = MoveEnd(c) /\ f = a + n /\ f < m /\ m <= ClaimedTo(c)
  <2>1. MovedTo(c) = found[c].index
    BY <1>1, <1>2 DEF ClaimRight
  <2> QED BY <1>1, <1>2, <2>1, FoundTypes, MoveEnds DEF MovedTo
<1>4. found[c].out = [k \in 1 .. n |-> a + k]
  BY <1>1, <1>2, <1>3 DEF ClaimRight
<1>5. found[c].block = At(Pos(f))
  BY <1>1, <1>2, <1>3 DEF BasesRight
<1>6. ASSUME NEW k \in 1 .. m - f
      PROVE  elements[found[c].block][Cell(f) + k - 1] = f + k
  <2>0. f + k - 1 \in f .. m - 1
    OBVIOUS
  <2>1. PICK i \in f .. m - 1 : i = f + k - 1
    BY <2>0
  <2>2. i \in Nat /\ Pos(i) = Pos(f) /\ Cell(i) = Cell(f) + k - 1
    <3>1. i \in Nat /\ Pos(i) = Pos(f) /\ Cell(i) = Cell(f) + (i - f) /\ Cell(f) \in Int
      <4>1. i \in Nat /\ Pos(i) = Pos(f) /\ Cell(i) = Cell(f) + (i - f)
        <5>1. \A x \in found[c].index .. MoveEnd(c) - 1 :
                 /\ x \in Nat /\ Pos(x) = Pos(found[c].index)
                 /\ Cell(x) = Cell(found[c].index) + (x - found[c].index)
          BY <1>1, <1>2, MoveEnds
        <5>2. f = found[c].index /\ m = MoveEnd(c)
          BY <1>3
        <5>3. \A x \in f .. m - 1 :
                 x \in Nat /\ Pos(x) = Pos(f) /\ Cell(x) = Cell(f) + (x - f)
          BY <5>1, <5>2, Zenon
        <5> QED BY <5>3
      <4>2. Cell(f) \in Cells
        BY Index
      <4> QED BY <4>1, <4>2 DEF Cells
    <3> QED BY <2>1, <3>1
  <2>3. Present(i) /\ i \in 0 .. tailIndex + batch.count
    <3>1. MovedTo(c) = f /\ ClaimedTo(c) \in Nat /\ ClaimedTo(c) <= tailIndex
          /\ tailIndex \in Nat /\ batch.count \in Nat
      BY <1>1, <1>2, <1>3, ClaimFacts, FoundTypes, BatchTypes DEF ClaimRight, TypeOK
    <3>2. i \in MovedTo(c) .. ClaimedTo(c) - 1
      BY <1>3, <2>1, <3>1
    <3> QED BY <1>1, <2>1, <3>1, <3>2 DEF Present
  <2>4. elements[At(Pos(i))][Cell(i)] = i + 1
    BY <1>2, <2>3 DEF ContentsRight
  <2> QED BY <1>5, <2>1, <2>2, <2>4
<1>a. f = a + n /\ f < m
  BY <1>3
<1>7. found'[c].out = [k \in 1 .. n |-> a + k] \o [k \in 1 .. m - f |-> f + k]
  <2>1. [k \in 1 .. m - f |-> elements[found[c].block][Cell(f) + k - 1]]
           = [k \in 1 .. m - f |-> f + k]
    BY <1>6
  <2> QED BY <1>1, <1>3, <1>4, <2>1
<1>8. /\ [k \in 1 .. n |-> a + k] \o [k \in 1 .. m - f |-> f + k]
            = [k \in 1 .. m - a |-> a + k]
      /\ [k \in 1 .. m - a |-> a + k] \in Seq(Nat)
      /\ Len([k \in 1 .. m - a |-> a + k]) = m - a
  <2>1. PICK l \in Nat : l = m - f /\ n + l = m - a
    BY <1>a
  <2> QED BY <1>a, <2>1, RunsJoin
<1>9. found[c].block \in Blocks
  <2>1. Live(Pos(f))
    <3>1. NotEmptied(f) /\ f < tailIndex /\ headIndex \in Nat /\ Started - 1 <= Latest
          /\ Started \in Nat /\ Latest \in Int
      BY <1>1, <1>2, <1>3, ClaimFacts, Where
    <3>2. Pos(f) \in Nat /\ Pos(f) < Started
      BY <3>1, PosOfNat, IndexBelow
    <3>3. Needed(Pos(f))
      BY <3>1, <3>2, NeededIs
    <3> QED BY <3>1, <3>2, <3>3 DEF Live
  <2>2. Pos(f) \in 0 .. Latest
    BY <2>1 DEF Live
  <2> QED BY <1>2, <1>5, <2>1, <2>2 DEF RingRight, Own
<1> QED BY <1>3, <1>4, <1>7, <1>8, <1>9

LEMMA MoveClaims ==
  ASSUME TypeOK, TicketInv, LayoutInv, NEW c \in Consumers, MoveElements(c)
  PROVE  ClaimRight'
<1>0. ClaimRight
  BY LayoutParts
<1>1. /\ pc[c] = "move" /\ pc'[c] = "empty" /\ c \in Claimants /\ Claimants' = Claimants
      /\ headIndex' = headIndex
      /\ found'[c].first = found[c].first /\ found'[c].index = found[c].index
      /\ \A d \in Consumers : /\ ClaimedTo(d)' = ClaimedTo(d)
                              /\ d # c => /\ MovedTo(d)' = MovedTo(d)
                                          /\ found'[d] = found[d] /\ pc'[d] = pc[d]
  BY MoveDoes
<1>2. Claimants \subseteq Consumers
  BY DEF Claimants
<1>3. /\ found'[c].out = [k \in 1 .. Len(found'[c].out) |-> found'[c].first + k]
      /\ MovedTo(c)' = MoveEnd(c)
  <2>1. /\ found'[c].out = [k \in 1 .. Len(found'[c].out) |-> found[c].first + k]
        /\ Len(found'[c].out) = MoveEnd(c) - found[c].first
    BY MovesRight
  <2>2. found[c].first \in Nat /\ MoveEnd(c) \in Nat
    BY <1>0, <1>1, FoundTypes, MoveEnds
  <2>3. MovedTo(c)' = found[c].first + (MoveEnd(c) - found[c].first)
    BY <1>1, <2>1 DEF MovedTo
  <2> QED BY <1>1, <2>1, <2>2, <2>3
<1>4. \A d \in Consumers \ Claimants : found'[d] = NotFound
  BY <1>0, <1>1 DEF ClaimRight
<1>5. ASSUME NEW d \in Claimants
      PROVE  /\ found'[d].first <= found'[d].index
             /\ found'[d].index < ClaimedTo(d)' /\ ClaimedTo(d)' <= headIndex'
             /\ MovedTo(d)' = IF pc'[d] = "empty"
                              THEN Min2(Base(found'[d].index) + BlockSize, ClaimedTo(d)')
                              ELSE found'[d].index
             /\ found'[d].out = [k \in 1 .. Len(found'[d].out) |-> found'[d].first + k]
  <2>1. CASE d = c
    BY <1>0, <1>1, <1>2, <1>3, <2>1 DEF ClaimRight, MoveEnd
  <2>2. CASE d # c
    BY <1>0, <1>1, <1>2, <2>2 DEF ClaimRight
  <2> QED BY <2>1, <2>2
<1>6. \A d, e \in Claimants : d # e =>
         ClaimedTo(d)' <= found'[e].index \/ ClaimedTo(e)' <= found'[d].index
  <2>1. \A d \in Claimants : found'[d].index = found[d].index
    BY <1>1, <1>2
  <2> QED BY <1>0, <1>1, <1>2, <2>1 DEF ClaimRight
<1> QED BY <1>1, <1>4, <1>5, <1>6 DEF ClaimRight

LEMMA SetEmptyClaims ==
  ASSUME TypeOK, TicketInv, ClaimRight, NEW c \in Consumers, SetEmpty(c)
  PROVE  ClaimRight'
<1>1. /\ pc[c] = "empty" /\ c \in Claimants /\ headIndex' = headIndex
      /\ \A d \in Consumers : d # c =>
            /\ ClaimedTo(d)' = ClaimedTo(d) /\ MovedTo(d)' = MovedTo(d)
            /\ found'[d] = found[d] /\ pc'[d] = pc[d]
  BY SetEmptyDoes
<1>2. Claimants \subseteq Consumers
  BY DEF Claimants
<1>3. CASE MovedTo(c) = ClaimedTo(c)
  <2>1. Claimants' = Claimants \ {c} /\ found'[c] = NotFound
    BY <1>3, SetEmptyDoes
  <2>2. \A d \in Consumers \ Claimants' : found'[d] = NotFound
    BY <1>1, <2>1 DEF ClaimRight
  <2>3. ASSUME NEW d \in Claimants'
        PROVE  /\ found'[d].first <= found'[d].index
               /\ found'[d].index < ClaimedTo(d)' /\ ClaimedTo(d)' <= headIndex'
               /\ MovedTo(d)' = IF pc'[d] = "empty"
                                THEN Min2(Base(found'[d].index) + BlockSize, ClaimedTo(d)')
                                ELSE found'[d].index
               /\ found'[d].out = [k \in 1 .. Len(found'[d].out) |-> found'[d].first + k]
    BY <1>1, <1>2, <2>1 DEF ClaimRight
  <2>4. \A d, e \in Claimants' : d # e =>
           ClaimedTo(d)' <= found'[e].index \/ ClaimedTo(e)' <= found'[d].index
    <3>1. \A d \in Claimants' : d \in Claimants /\ d \in Consumers /\ d # c
      BY <1>2, <2>1
    <3>2. \A d \in Claimants' : found'[d] = found[d] /\ ClaimedTo(d)' = ClaimedTo(d)
      BY <1>1, <3>1
    <3> QED BY <3>1, <3>2 DEF ClaimRight
  <2> QED BY <2>2, <2>3, <2>4 DEF ClaimRight
<1>4. CASE MovedTo(c) # ClaimedTo(c)
  <2>1. /\ pc'[c] = "block" /\ Claimants' = Claimants
        /\ found'[c].first = found[c].first /\ found'[c].index = MovedTo(c)
        /\ found'[c].out = found[c].out
        /\ ClaimedTo(c)' = ClaimedTo(c) /\ MovedTo(c)' = MovedTo(c)
    BY <1>4, SetEmptyDoes
  <2>2. /\ found[c].first <= found[c].index /\ found[c].index < MovedTo(c)
        /\ MovedTo(c) <= ClaimedTo(c) /\ MovedTo(c) \in Nat /\ ClaimedTo(c) \in Nat
        /\ found[c].first \in Nat /\ found[c].index \in Nat
    BY <1>1, FoundTypes, MoveEnds DEF ClaimRight, MoveEnd
  <2>3. \A d \in Consumers \ Claimants' : found'[d] = NotFound
    BY <1>1, <2>1 DEF ClaimRight
  <2>4. ASSUME NEW d \in Claimants
        PROVE  /\ found'[d].first <= found'[d].index
               /\ found'[d].index < ClaimedTo(d)' /\ ClaimedTo(d)' <= headIndex'
               /\ MovedTo(d)' = IF pc'[d] = "empty"
                                THEN Min2(Base(found'[d].index) + BlockSize, ClaimedTo(d)')
                                ELSE found'[d].index
               /\ found'[d].out = [k \in 1 .. Len(found'[d].out) |-> found'[d].first + k]
    <3>1. CASE d = c
      <4>1. found[c].first <= MovedTo(c) /\ MovedTo(c) < ClaimedTo(c)
        BY <1>4, <2>2
      <4>2. ClaimedTo(c) <= headIndex
            /\ found[c].out = [k \in 1 .. Len(found[c].out) |-> found[c].first + k]
        BY <1>1 DEF ClaimRight
      <4> QED BY <1>1, <2>1, <3>1, <4>1, <4>2
    <3>2. CASE d # c
      BY <1>1, <1>2, <3>2 DEF ClaimRight
    <3> QED BY <3>1, <3>2
  <2>5. ASSUME NEW d \in Claimants, NEW e \in Claimants, d # e
        PROVE  ClaimedTo(d)' <= found'[e].index \/ ClaimedTo(e)' <= found'[d].index
    <3>1. ClaimedTo(d) <= found[e].index \/ ClaimedTo(e) <= found[d].index
      BY <2>5 DEF ClaimRight
    <3>2. /\ ClaimedTo(d)' = ClaimedTo(d) /\ ClaimedTo(e)' = ClaimedTo(e)
          /\ ClaimedTo(d) \in Nat /\ ClaimedTo(e) \in Nat
      BY <1>1, <1>2, <2>1, FoundTypes
    <3>3. ASSUME NEW x \in Claimants
          PROVE  found'[x].index \in Nat /\ found[x].index \in Nat
                 /\ found[x].index <= found'[x].index
      BY <1>1, <1>2, <2>1, <2>2, FoundTypes
    <3> QED BY <3>1, <3>2, <3>3
  <2> QED BY <2>1, <2>3, <2>4, <2>5 DEF ClaimRight
<1> QED BY <1>3, <1>4

LEMMA StepClaims ==
  ASSUME TypeOK, TicketInv, LayoutInv, Next
  PROVE  ClaimRight'
<1>0. ClaimRight
  BY LayoutParts
<1>1. CASE Producer \/ Others \/ Destroy
  <2>1. UNCHANGED <<headIndex, consumer>>
    BY <1>1, ConsumersStay DEF consumer
  <2> QED BY <1>0, <2>1, ConsumersSame, ClaimsSame DEF consumer
<1>2. ASSUME NEW c \in Consumers, Consumer(c) PROVE ClaimRight'
  <2>1. Early(c) \/ Claim(c) \/ LooksUp(c) \/ MoveElements(c) \/ SetEmpty(c)
    BY <1>2 DEF Consumer, Early, LooksUp
  <2> QED BY <1>0, <2>1, EarlyClaims, ClaimClaims, LookupClaims, MoveClaims, SetEmptyClaims
<1> QED BY <1>1, <1>2, NextCases

-----------------------------------------------------------------------------
(* The producer's call *)

LEMMA TailSame ==
  ASSUME tailIndex' = tailIndex
  PROVE  /\ Started' = Started
         /\ \A n, k : NeedsMore(n, k)' <=> NeedsMore(n, k)
         /\ \A k : BlockStart(k)' = BlockStart(k)
  BY DEF Started, NeedsMore, BlockStart

\* A step within a call that begins or goes on to place q.
LEMMA BatchStays ==
  ASSUME BatchRight, InBatch, tailIndex' = tailIndex, tailBlock' = tailBlock,
         batch' = batch, InBatch',
         ppc' \in {"ahead", "room", "requisition"} => NeedsMore(batch.count, batch.blocks),
         ppc' \in {"base", "entry"} =>
            batch.blocks > 0 /\ NeedsMore(batch.count, batch.blocks - 1),
         ppc' = "front" => batch.blocks > 0,
         ppc' \in {"front", "write", "commit"} => ~NeedsMore(batch.count, batch.blocks),
         ppc' \in {"front", "write", "commit"} /\ batch.blocks > 0 =>
            NeedsMore(batch.count, batch.blocks - 1)
  PROVE  BatchRight'
<1>1. /\ Started' = Started
      /\ \A n, k : NeedsMore(n, k)' <=> NeedsMore(n, k)
  BY TailSame
<1> QED BY <1>1 DEF BatchRight

LEMMA BatchGains ==
  ASSUME TypeOK, BatchRight, NEW b \in Blocks, Obtain(b), tailIndex' = tailIndex,
         ppc \in {"ahead", "room", "requisition"}
  PROVE  BatchRight'
<1>1. /\ Started' = Started
      /\ \A n, k : NeedsMore(n, k)' <=> NeedsMore(n, k)
  BY TailSame
<1>2. /\ batch'.count = batch.count /\ batch'.start = batch.start
      /\ batch'.front = batch.front /\ batch'.slots = batch.slots
      /\ batch'.blocks = batch.blocks + 1 /\ batch.blocks \in Nat
      /\ batch'.first = IF batch.first = Null THEN b ELSE batch.first
      /\ ppc' = "base"
  BY ObtainDoes, BatchTypes
<1>3. batch'.first # Null /\ batch'.blocks # 0 /\ batch'.blocks > 0
      /\ batch'.blocks - 1 = batch.blocks
  BY <1>2, PointerAssumption
<1>4. NeedsMore(batch.count, batch.blocks) /\ InBatch /\ InBatch'
  BY <1>2 DEF BatchRight, InBatch
<1>5. /\ batch'.count > 0
      /\ batch'.front = Started' % IndexSize
      /\ batch'.start = Null => Started' = 0
      /\ batch'.slots <= Started'
  BY <1>1, <1>2, <1>4 DEF BatchRight
<1>6. NeedsMore(batch.count, batch.blocks - 1)'
  BY <1>1, <1>2, <1>3, <1>4
<1> QED BY <1>2, <1>3, <1>4, <1>5, <1>6 DEF BatchRight

LEMMA IdleBatch ==
  ASSUME BatchRight, ~InBatch, TypeOK
  PROVE  batch.count = 0 /\ batch.blocks = 0 /\ batch.start = Null /\ batch.first = Null
         /\ batch.slots = 0 /\ Latest = Started - 1
<1>1. batch = NoBatch
  BY DEF BatchRight
<1>2. batch.count = 0 /\ batch.blocks = 0 /\ batch.start = Null /\ batch.first = Null
      /\ batch.slots = 0
  BY <1>1, NoBatchIs
<1>3. Started \in Nat
  BY StartedIs DEF TypeOK
<1> QED BY <1>2, <1>3 DEF Latest

LEMMA StartBatch ==
  ASSUME TypeOK, BatchRight, SlotsRight, RingRight, NEW n \in PutSizes, EnqueueStart(n)
  PROVE  BatchRight'
<1>0. n \in Nat /\ n > 0
  BY SizeAssumption
<1>1. /\ batch'.count = n /\ batch'.start = tailBlock
      /\ batch'.first = Null /\ batch'.front = nextFront /\ batch'.slots = slotsUsed
      /\ batch'.blocks = 0
      /\ ppc = "idle" /\ ppc' = IF NeedsMore(n, 0) THEN "ahead" ELSE "write"
      /\ tailIndex' = tailIndex /\ tailBlock' = tailBlock
  BY <1>0, StartDoes DEF counters, circle
<1>2. /\ Started' = Started
      /\ \A m, k : NeedsMore(m, k)' <=> NeedsMore(m, k)
  BY <1>1, TailSame
<1>3. Latest = Started - 1 /\ Started \in Nat
  BY <1>1, IdleBatch, StartedIs DEF InBatch, TypeOK
<1>4. Latest + 1 = Started
  BY <1>3
<1>5. nextFront = Started % IndexSize /\ slotsUsed <= Started
  BY <1>1, <1>4 DEF SlotsRight
<1>6. tailBlock = Null => Started = 0
  BY <1>3 DEF RingRight
<1>7. NeedsMore(batch.count, batch.blocks)' <=> NeedsMore(n, 0)
  BY <1>1, <1>2
<1> QED BY <1>0, <1>1, <1>2, <1>5, <1>6, <1>7 DEF BatchRight, InBatch

LEMMA ProducerBatch ==
  ASSUME TypeOK, TicketInv, LayoutInv, Producer
  PROVE  BatchRight'
<1>0. BatchRight /\ CircleRight
  BY LayoutParts
<1>1. CASE \E n \in PutSizes : EnqueueStart(n)
  <2>1. PICK n \in PutSizes : EnqueueStart(n)
    BY <1>1
  <2>2. ppc # "destroyed"
    BY <2>1 DEF EnqueueStart
  <2> QED BY <1>0, <2>1, <2>2, StartBatch, LayoutParts
<1>2. CASE ReuseBlock
  <2>1. /\ next[tailBlock] \in Blocks /\ Obtain(next[tailBlock]) /\ ppc = "ahead"
        /\ tailIndex' = tailIndex
    BY <1>0, <1>2, ReuseDoes DEF counters
  <2> QED BY <1>0, <2>1, BatchGains
<1>3. CASE \E b \in pool : Takes(b)
  <2>1. PICK b \in pool : Takes(b)
    BY <1>3
  <2>2. b \in Blocks /\ Obtain(b) /\ ppc = "requisition" /\ tailIndex' = tailIndex
    BY <2>1 DEF Takes, TypeOK, counters
  <2> QED BY <1>0, <2>2, BatchGains
<1>4. CASE NeedBlock \/ GoesOn \/ StoreBase \/ StoreBlock \/ StoreFront \/ WriteElements
  <2>1. tailIndex' = tailIndex /\ tailBlock' = tailBlock /\ batch' = batch
    BY <1>4 DEF NeedBlock, GoesOn, StoreBase, StoreBlock, StoreFront, WriteElements,
                counters, circle
  <2>2. \/ ppc = "ahead" /\ ppc' = "room"
        \/ ppc = "room" /\ ppc' = "requisition"
        \/ ppc = "base" /\ ppc' = "entry"
        \/ /\ ppc = "entry"
           /\ \/ ppc' = "front" /\ ~NeedsMore(batch.count, batch.blocks)
              \/ ppc' \in {"room", "ahead"} /\ NeedsMore(batch.count, batch.blocks)
        \/ ppc = "front" /\ ppc' = "write"
        \/ ppc = "write" /\ ppc' = "commit"
    <3>1. CASE StoreBlock
      BY <3>1 DEF StoreBlock
    <3>2. CASE ~StoreBlock
      BY <1>4, <3>2 DEF NeedBlock, GoesOn, StoreBase, StoreFront, WriteElements
    <3> QED BY <3>1, <3>2
  <2>3. InBatch /\ InBatch'
    BY <2>2 DEF InBatch
  <2> QED BY <1>0, <2>1, <2>2, <2>3, BatchStays DEF BatchRight
<1>5. CASE Commit \/ Fails
  <2>1. batch' = NoBatch /\ ppc' = "idle"
    BY <1>5 DEF Commit, Fails, Undo
  <2>2. batch'.first = Null /\ batch'.blocks = 0
    BY <2>1, NoBatchIs
  <2> QED BY <2>1, <2>2 DEF BatchRight, InBatch
<1> QED BY <1>1, <1>2, <1>3, <1>4, <1>5, ProducerCases

LEMMA StepBatch ==
  ASSUME TypeOK, TicketInv, LayoutInv, Next
  PROVE  BatchRight'
<1>0. BatchRight
  BY LayoutParts
<1>1. CASE Producer
  BY <1>1, ProducerBatch
<1>2. CASE Others
  <2>1. tailIndex' = tailIndex /\ tailBlock' = tailBlock /\ ppc' = ppc /\ batch' = batch
    BY <1>2 DEF Others, OtherTakes, OtherReturns, counters, circle, producer
  <2>2. /\ Started' = Started
        /\ \A n, k : NeedsMore(n, k)' <=> NeedsMore(n, k)
    BY <2>1, TailSame
  <2> QED BY <1>0, <2>1, <2>2 DEF BatchRight, InBatch
<1>3. CASE Destroy
  <2>1. ppc = "idle" /\ ppc' = "destroyed" /\ batch' = batch
    BY <1>3 DEF Destroy, AllReturned
  <2> QED BY <1>0, <2>1 DEF BatchRight, InBatch
<1>4. ASSUME NEW c \in Consumers, Consumer(c) PROVE BatchRight'
  BY <1>0, <1>4, ProducerStays, ConsumerFrame
<1> QED BY <1>1, <1>2, <1>3, <1>4, NextCases

LEMMA EntryNext ==
  ASSUME NEW p \in Int
  PROVE  EntryAfter(p % IndexSize) = (p + 1) % IndexSize
<1>1. PICK q \in Int : q = 1
  OBVIOUS
<1>2. ((p % IndexSize) + q) % IndexSize = (p + q) % IndexSize
  BY EntryPlus
<1> QED BY <1>1, <1>2 DEF EntryAfter

LEMMA EntryBefore ==
  ASSUME NEW p \in Int
  PROVE  (((p + 1) % IndexSize) - 1) % IndexSize = p % IndexSize
<1>1. PICK q \in Int, r \in Int : q = 1 /\ r = p + 1
  OBVIOUS
<1>2. ((r % IndexSize) - q) % IndexSize = (r - q) % IndexSize
  BY EntryPlus
<1>3. r - q = p
  BY <1>1
<1> QED BY <1>1, <1>2, <1>3

\* Once all its blocks are there, the last one is that of the last element.
LEMMA AllThere ==
  ASSUME TypeOK, TicketInv, BatchRight, ppc \in {"front", "write", "commit"}
  PROVE  /\ Latest = Pos(tailIndex + batch.count - 1) /\ Latest \in Nat
         /\ batch.count \in Nat /\ batch.count > 0
<1> DEFINE last == tailIndex + batch.count - 1
<1>1. /\ batch.count \in Nat /\ batch.count > 0 /\ batch.blocks \in Nat /\ tailIndex \in Nat
      /\ Started \in Nat /\ Latest = Started - 1 + batch.blocks /\ Latest \in Int
  BY BatchTypes, Where DEF BatchRight, InBatch
<1>2. last \in Nat /\ Pos(last) \in Nat
  BY <1>1, PosOfNat
<1>3. Pos(last) <= Latest
  <2>1. ~NeedsMore(batch.count, batch.blocks)
    BY DEF BatchRight
  <2>2. ~(Latest < Pos(last))
    BY <1>1, <2>1, NeedsIs
  <2> QED BY <1>1, <1>2, <2>2
<1>4. Latest <= Pos(last)
  <2>1. CASE batch.blocks > 0
    <3>1. NeedsMore(batch.count, batch.blocks - 1)
      BY <2>1 DEF BatchRight
    <3>2. Started - 1 + (batch.blocks - 1) < Pos(last)
      BY <1>1, <3>1, NeedsIs
    <3> QED BY <1>1, <1>2, <3>2
  <2>2. CASE batch.blocks = 0
    <3>1. Latest = Pos(tailIndex - 1)
      BY <1>1, <2>2, StartedIs
    <3>2. tailIndex - 1 \in Int /\ tailIndex - 1 <= last
      BY <1>1
    <3> QED BY <1>2, <3>1, <3>2, PosMono
  <2> QED BY <1>1, <2>1, <2>2
<1> QED BY <1>1, <1>2, <1>3, <1>4

LEMMA CommitDoes ==
  ASSUME TypeOK, TicketInv, BatchRight, Commit
  PROVE  /\ Started' = Latest + 1 /\ Latest' = Latest /\ Latest \in Nat
         /\ tailIndex' = tailIndex + batch.count
         /\ batch'.count = 0 /\ batch'.blocks = 0 /\ batch'.start = Null
         /\ batch'.first = Null /\ batch'.slots = 0 /\ batch' = NoBatch
         /\ ppc = "commit" /\ ppc' = "idle"
         /\ UNCHANGED <<headIndex, circle, contents, index, places, consumer>>
<1>1. /\ ppc = "commit" /\ ppc' = "idle" /\ tailIndex' = tailIndex + batch.count
      /\ batch' = NoBatch
      /\ UNCHANGED <<headIndex, circle, contents, index, places, consumer>>
  BY DEF Commit
<1>2. Latest = Pos(tailIndex' - 1) /\ Latest \in Nat /\ tailIndex' \in Nat
  <2>1. tailIndex \in Nat /\ batch.count \in Nat /\ Latest \in Nat
        /\ Latest = Pos(tailIndex + batch.count - 1)
    BY <1>1, AllThere DEF TypeOK
  <2> QED BY <1>1, <2>1
<1>3. Pos(tailIndex' - 1) = Started' - 1 /\ Started' \in Nat
  <2>1. \A t \in Nat : Pos(t - 1) = Pos(t + BlockSize - 1) - 1 /\ Pos(t + BlockSize - 1) \in Nat
    <3> SUFFICES ASSUME NEW t \in Nat
                 PROVE  Pos(t - 1) = Pos(t + BlockSize - 1) - 1 /\ Pos(t + BlockSize - 1) \in Nat
      OBVIOUS
    <3>1. t - 1 \in Int /\ t + BlockSize - 1 \in Nat /\ BlockSize \in Nat
      BY SizeAssumption
    <3>2. PICK p \in Int, b \in Int : p = Pos(t - 1) /\ b = Begin(p) /\ b <= t - 1 /\ t - 1 < b + BlockSize
      BY <3>1, Index
    <3>3. Begin(p + 1) = b + BlockSize /\ p + 1 \in Int
      BY <3>2, Begins
    <3>4. Pos(t + BlockSize - 1) = p + 1
      <4>1. Begin(p + 1) <= t + BlockSize - 1 /\ t + BlockSize - 1 < Begin(p + 1) + BlockSize
        BY <3>1, <3>2, <3>3
      <4> QED BY <3>1, <3>3, <4>1, PosIs
    <3> QED BY <3>1, <3>2, <3>4, PosOfNat
  <2> QED BY <1>2, <2>1 DEF Started
<1>4. batch'.count = 0 /\ batch'.blocks = 0 /\ batch'.start = Null
      /\ batch'.first = Null /\ batch'.slots = 0
  BY <1>1, NoBatchIs
<1>5. Started' = Latest + 1
  BY <1>2, <1>3
<1>6. Latest' = Latest
  BY <1>2, <1>3, <1>4, <1>5 DEF Latest
<1> QED BY <1>1, <1>2, <1>4, <1>5, <1>6

LEMMA FailsDoes ==
  ASSUME TypeOK, TicketInv, BatchRight, Fails
  PROVE  /\ Started' = Started /\ Latest' = Started - 1 /\ ppc \in {"room", "requisition"}
         /\ ppc' = "idle" /\ batch' = NoBatch /\ batch'.blocks = 0 /\ batch'.slots = 0
         /\ batch'.count = 0 /\ batch'.first = Null
         /\ nextFront' = Started % IndexSize /\ slotsUsed' = batch.slots
         /\ batch.slots <= Started
         /\ tailBlock' = IF batch.start = Null THEN batch.first ELSE batch.start
         /\ UNCHANGED <<counters, next, contents, entries, front, places, consumer>>
<1>1. /\ ppc \in {"room", "requisition"} /\ ppc' = "idle" /\ batch' = NoBatch
      /\ nextFront' = batch.front /\ slotsUsed' = batch.slots
      /\ tailBlock' = IF batch.start = Null THEN batch.first ELSE batch.start
      /\ UNCHANGED <<counters, next, contents, entries, front, places, consumer>>
  BY DEF Fails, Undo
<1>2. batch'.blocks = 0 /\ batch'.slots = 0 /\ batch'.count = 0 /\ batch'.first = Null
  BY <1>1, NoBatchIs
<1>3. Started' = Started /\ Started \in Nat
  BY <1>1, TailSame, Where DEF counters
<1>4. Latest' = Started - 1
  BY <1>2, <1>3 DEF Latest
<1>5. batch.front = Started % IndexSize /\ batch.slots <= Started
  BY <1>1 DEF BatchRight, InBatch
<1> QED BY <1>1, <1>2, <1>3, <1>4, <1>5

\* A call that needs no block starts in one.
LEMMA RoomInTail ==
  ASSUME tailIndex \in Nat, NEW n \in Nat, n > 0, ~NeedsMore(n, 0)
  PROVE  Started > 0
<1>1. ~(Started - 1 + 0 < Pos(tailIndex + n - 1)) /\ Started \in Nat
  BY NeedsIs, StartedIs
<1>2. tailIndex + n - 1 \in Nat
  OBVIOUS
<1>3. Pos(tailIndex + n - 1) \in Nat
  BY <1>2, PosOfNat
<1> QED BY <1>1, <1>3

\* A step within a call, or of no call, that obtains no block.
LEMMA PlaceSame ==
  ASSUME tailIndex' = tailIndex, batch' = batch
  PROVE  Started' = Started /\ Latest' = Latest
  BY DEF Started, Latest

LEMMA ProducerSlots ==
  ASSUME TypeOK, TicketInv, LayoutInv, SlotsRight, Producer
  PROVE  SlotsRight'
<1>0. /\ BatchRight /\ CircleRight
      /\ Started \in Nat /\ Latest \in Int /\ batch.blocks \in Nat
      /\ Latest = Started - 1 + batch.blocks
      /\ slotsUsed \in 0 .. IndexSize /\ batch.slots \in 0 .. IndexSize /\ IndexSize \in Nat
      /\ slotsUsed <= Cardinality(Own) /\ slotsUsed <= Latest + 1
      /\ batch.slots <= slotsUsed /\ Cardinality(Own) \in Nat
  BY LayoutParts, Where, OwnIsFinite, BatchTypes, SizeAssumption DEF SlotsRight, TypeOK
<1>1. CASE \E n \in PutSizes : EnqueueStart(n)
  <2>1. PICK n \in PutSizes : EnqueueStart(n)
    BY <1>1
  <2>2. n \in Nat /\ n > 0
    BY SizeAssumption
  <2>3. /\ batch'.slots = slotsUsed /\ batch'.blocks = 0
        /\ ppc = "idle" /\ ppc' = IF NeedsMore(n, 0) THEN "ahead" ELSE "write"
        /\ UNCHANGED <<counters, circle, contents, index, places, consumer>>
    BY <2>1, <2>2, StartDoes
  <2>4. Started' = Started /\ Own' = Own /\ nextFront' = nextFront /\ slotsUsed' = slotsUsed
        /\ front' = front
    BY <2>3, TailSame DEF counters, places, index, Own
  <2>5. Latest = Started - 1 /\ Latest' = Latest
    BY <1>0, <2>3, <2>4, IdleBatch DEF InBatch, Latest
  <2>6. ppc' = "write" => Started > 0
    BY <2>2, <2>3, RoomInTail DEF TypeOK
  <2>7. front' = IF Started' = 0 /\ ppc' \notin {"write", "commit"} THEN -1
               ELSE (IF ppc' \in {"write", "commit"} THEN Latest' ELSE Started' - 1) % IndexSize
    <3>1. front = IF Started = 0 THEN -1 ELSE (Started - 1) % IndexSize
      BY <2>3 DEF SlotsRight
    <3>2. Started # 0 \/ ppc' \notin {"write", "commit"}
      BY <1>0, <2>3, <2>6
    <3> QED BY <2>3, <2>4, <2>5, <3>1, <3>2
  <2>8. nextFront' = (Latest' + 1) % IndexSize
    BY <2>3, <2>4, <2>5 DEF SlotsRight
  <2> QED BY <1>0, <2>3, <2>4, <2>5, <2>7, <2>8 DEF SlotsRight
<1>2. CASE ReuseBlock \/ \E b \in pool : Takes(b)
  <2>1. PICK b \in Blocks : /\ Obtain(b) /\ ppc \in {"ahead", "requisition"}
                            /\ tailIndex' = tailIndex /\ nextFront' = nextFront /\ front' = front
                            /\ \/ slotsUsed' = slotsUsed /\ Own' = Own
                               \/ /\ slotsUsed' = slotsUsed + 1 /\ b \notin Own
                                  /\ Own' = Own \cup {b}
    <3>1. CASE ReuseBlock
      <4>1. /\ next[tailBlock] \in Blocks /\ Obtain(next[tailBlock]) /\ ppc = "ahead"
            /\ UNCHANGED <<counters, next, contents, index, places, consumer>>
        BY <1>0, <3>1, ReuseDoes
      <4>2. tailIndex' = tailIndex /\ nextFront' = nextFront /\ front' = front
            /\ slotsUsed' = slotsUsed /\ Own' = Own
        BY <4>1 DEF counters, index, places, Own
      <4> QED BY <4>1, <4>2
    <3>2. CASE \E b \in pool : Takes(b)
      <4>1. PICK b \in pool : Takes(b)
        BY <3>2
      <4>2. b \in Blocks /\ Obtain(b) /\ ppc = "requisition" /\ tailIndex' = tailIndex
            /\ nextFront' = nextFront /\ front' = front /\ slotsUsed' = slotsUsed + 1
            /\ pool' = pool \ {b} /\ other' = other /\ next' = Linked(b)
        BY <4>1 DEF Takes, TypeOK, counters
      <4>3. tailBlock' = b /\ batch'.start = batch.start
        BY <4>2, ObtainDoes
      <4> QED BY <1>0, <4>2, <4>3, CircleGrows
    <3> QED BY <1>2, <3>1, <3>2
  <2>2. batch'.slots = batch.slots /\ batch'.blocks = batch.blocks + 1 /\ ppc' = "base"
    BY <2>1, ObtainDoes
  <2>3. Started' = Started /\ Latest' = Latest + 1
    BY <1>0, <2>1, <2>2, TailSame DEF Latest
  <2>4. Cardinality(Own') \in Nat
        /\ Cardinality(Own') >= Cardinality(Own) + (slotsUsed' - slotsUsed)
    BY <1>0, <2>1, OwnIsFinite, FS_AddElement
  <2>5. nextFront' = Latest' % IndexSize
    BY <2>1, <2>3 DEF SlotsRight
  <2>6. front' = IF Started' = 0 /\ ppc' \notin {"write", "commit"} THEN -1
               ELSE (IF ppc' \in {"write", "commit"} THEN Latest' ELSE Started' - 1) % IndexSize
    BY <2>1, <2>2, <2>3 DEF SlotsRight
  <2>7. slotsUsed' <= Cardinality(Own') /\ slotsUsed' <= Latest' + 1 /\ batch'.slots <= slotsUsed'
    BY <1>0, <2>1, <2>2, <2>3, <2>4
  <2> QED BY <2>2, <2>5, <2>6, <2>7 DEF SlotsRight
<1>3. CASE NeedBlock \/ GoesOn \/ StoreBase \/ WriteElements
  <2>1. /\ tailIndex' = tailIndex /\ batch' = batch /\ nextFront' = nextFront
        /\ front' = front /\ slotsUsed' = slotsUsed /\ Own' = Own
        /\ \/ ppc = "ahead" /\ ppc' = "room"
           \/ ppc = "room" /\ ppc' = "requisition" /\ slotsUsed # IndexSize
           \/ ppc = "base" /\ ppc' = "entry"
           \/ ppc = "write" /\ ppc' = "commit"
    BY <1>3 DEF NeedBlock, GoesOn, StoreBase, WriteElements, counters, index, places, Own
  <2>2. Started' = Started /\ Latest' = Latest
    BY <2>1, PlaceSame
  <2>3. slotsUsed # IndexSize => slotsUsed < IndexSize
    BY <1>0
  <2> QED BY <2>1, <2>2, <2>3 DEF SlotsRight
<1>4. CASE StoreBlock
  <2>1. /\ tailIndex' = tailIndex /\ batch' = batch /\ nextFront' = EntryAfter(nextFront)
        /\ front' = front /\ slotsUsed' = slotsUsed /\ Own' = Own
        /\ ppc = "entry" /\ ppc' \in {"ahead", "room", "front"}
    BY <1>4 DEF StoreBlock, counters, places, Own
  <2>2. Started' = Started /\ Latest' = Latest
    BY <2>1, PlaceSame
  <2>3. nextFront' = (Latest + 1) % IndexSize
    <3>1. nextFront = Latest % IndexSize
      BY <2>1 DEF SlotsRight
    <3>2. EntryAfter(Latest % IndexSize) = (Latest + 1) % IndexSize
      BY <1>0, EntryNext
    <3> QED BY <2>1, <3>1, <3>2
  <2>4. nextFront' = (Latest' + 1) % IndexSize
    BY <2>2, <2>3
  <2> QED BY <2>1, <2>2, <2>4 DEF SlotsRight
<1>5. CASE StoreFront
  <2>1. /\ tailIndex' = tailIndex /\ batch' = batch /\ nextFront' = nextFront
        /\ front' = (nextFront - 1) % IndexSize /\ slotsUsed' = slotsUsed /\ Own' = Own
        /\ ppc = "front" /\ ppc' = "write"
    BY <1>5 DEF StoreFront, counters, places, Own
  <2>2. Started' = Started /\ Latest' = Latest
    BY <2>1, PlaceSame
  <2>3. front' = Latest % IndexSize
    <3>1. nextFront = (Latest + 1) % IndexSize
      BY <2>1 DEF SlotsRight
    <3>2. (((Latest + 1) % IndexSize) - 1) % IndexSize = Latest % IndexSize
      BY <1>0, EntryBefore
    <3> QED BY <2>1, <3>1, <3>2
  <2> QED BY <2>1, <2>2, <2>3 DEF SlotsRight
<1>6. CASE Commit
  <2>1. /\ Started' = Latest + 1 /\ Latest' = Latest /\ Latest \in Nat
        /\ batch'.slots = 0 /\ ppc = "commit" /\ ppc' = "idle"
        /\ nextFront' = nextFront /\ front' = front /\ slotsUsed' = slotsUsed /\ Own' = Own
    BY <1>0, <1>6, CommitDoes DEF index, places, Own
  <2>2. front = Latest % IndexSize /\ nextFront = (Latest + 1) % IndexSize
    BY <2>1 DEF SlotsRight
  <2>3. Started' # 0 /\ Started' - 1 = Latest
    BY <2>1
  <2>4. nextFront' = (Latest' + 1) % IndexSize /\ front' = (Started' - 1) % IndexSize
    BY <2>1, <2>2, <2>3
  <2> QED BY <1>0, <2>1, <2>3, <2>4 DEF SlotsRight
<1>7. CASE Fails
  <2>1. /\ Started' = Started /\ Latest' = Started - 1 /\ ppc \in {"room", "requisition"}
        /\ ppc' = "idle" /\ batch'.slots = 0
        /\ nextFront' = Started % IndexSize /\ slotsUsed' = batch.slots
        /\ batch.slots <= Started /\ front' = front /\ Own' = Own
    BY <1>0, <1>7, FailsDoes DEF places, Own
  <2>2. Latest' + 1 = Started
    BY <1>0, <2>1
  <2>3. front = IF Started = 0 THEN -1 ELSE (Started - 1) % IndexSize
    BY <2>1 DEF SlotsRight
  <2> QED BY <1>0, <2>1, <2>2, <2>3 DEF SlotsRight
<1> QED BY <1>1, <1>2, <1>3, <1>4, <1>5, <1>6, <1>7, ProducerCases

LEMMA StepSlots ==
  ASSUME TypeOK, TicketInv, LayoutInv, Next, ppc' # "destroyed"
  PROVE  SlotsRight'
<1>1. CASE Producer
  <2>1. ppc # "destroyed"
    BY <1>1, ProducerCases DEF EnqueueStart, ReuseBlock, NeedBlock, GoesOn, Fails, Takes,
       StoreBase, StoreBlock, StoreFront, WriteElements, Commit
  <2> QED BY <1>1, <2>1, ProducerSlots, LayoutParts
<1>2. CASE Others
  <2>1. /\ tailIndex' = tailIndex /\ batch' = batch /\ ppc' = ppc
        /\ nextFront' = nextFront /\ front' = front /\ slotsUsed' = slotsUsed
    BY <1>2 DEF Others, OtherTakes, OtherReturns, counters, index, producer
  <2>2. Own' = Own
    BY <1>2 DEF Others, OtherTakes, OtherReturns, Own
  <2>3. Started' = Started /\ Latest' = Latest
    BY <2>1, PlaceSame
  <2> QED BY <2>1, <2>2, <2>3, LayoutParts DEF SlotsRight
<1>3. CASE Destroy
  BY <1>3 DEF Destroy
<1>4. ASSUME NEW c \in Consumers, Consumer(c) PROVE SlotsRight'
  <2>1. ppc # "destroyed" /\ UNCHANGED <<tailIndex, circle, index, places, producer>>
    BY <1>4, ProducerStays DEF producer
  <2> QED BY <2>1, ConsumerFrame, LayoutParts
<1> QED BY <1>1, <1>2, <1>3, <1>4, NextCases

-----------------------------------------------------------------------------
(* Blocks keep their places *)

\* The producer gets one more block.
Gets(b) ==
    /\ Obtain(b) /\ ppc \in {"ahead", "requisition"}
    /\ UNCHANGED <<counters, elements, entries, front, nextFront, other, consumer>>

\* It stays with those it has.
Stays ==
    \/ \E n \in PutSizes : EnqueueStart(n)
    \/ NeedBlock \/ GoesOn \/ StoreBase \/ StoreBlock \/ StoreFront \/ WriteElements

LEMMA ProducerMoves ==
  ASSUME TypeOK, TicketInv, BatchRight, CircleRight, Producer
  PROVE  /\ \/ \E b \in Blocks : Gets(b) /\ (ReuseBlock \/ Takes(b))
                                 /\ (ReuseBlock => b = next[tailBlock])
            \/ Fails \/ Commit \/ Stays
         /\ UNCHANGED <<headIndex, consumer>>
<1>1. CASE ReuseBlock
  <2>1. /\ next[tailBlock] \in Blocks /\ Obtain(next[tailBlock]) /\ ppc = "ahead"
        /\ UNCHANGED <<counters, next, contents, index, places, consumer>>
    BY <1>1, ReuseDoes
  <2> QED BY <1>1, <2>1 DEF Gets, contents, index, places, counters
<1>2. CASE \E b \in pool : Takes(b)
  <2>1. PICK b \in pool : Takes(b)
    BY <1>2
  <2>2. b \in Blocks /\ Gets(b)
    BY <2>1 DEF Takes, Gets, TypeOK
  <2>3. ~ReuseBlock
    BY <2>1 DEF Takes, ReuseBlock
  <2> QED BY <2>1, <2>2, <2>3 DEF Gets, counters
<1>3. CASE Fails \/ Commit \/ Stays
  BY <1>3, ConsumersStay DEF consumer
<1> QED BY <1>1, <1>2, <1>3, ProducerCases DEF Stays

LEMMA GetsDoes ==
  ASSUME TypeOK, TicketInv, NEW b \in Blocks, Gets(b)
  PROVE  /\ Started' = Started /\ Latest' = Latest + 1 /\ ppc' = "base" /\ tailBlock' = b
         /\ batch'.count = batch.count /\ batch'.start = batch.start
         /\ batch'.front = batch.front /\ batch'.slots = batch.slots
         /\ batch'.blocks = batch.blocks + 1
         /\ batch'.first = IF batch.first = Null THEN b ELSE batch.first
         /\ ppc \in {"ahead", "requisition"} /\ tailIndex' = tailIndex
         /\ base' = base /\ block' = block /\ elements' = elements
<1>1. /\ batch'.count = batch.count /\ batch'.start = batch.start
      /\ batch'.front = batch.front /\ batch'.slots = batch.slots
      /\ batch'.blocks = batch.blocks + 1
      /\ batch'.first = IF batch.first = Null THEN b ELSE batch.first
      /\ tailBlock' = b /\ ppc' = "base"
  BY ObtainDoes DEF Gets
<1>2. /\ ppc \in {"ahead", "requisition"} /\ tailIndex' = tailIndex
      /\ base' = base /\ block' = block /\ elements' = elements
  BY DEF Gets, counters, entries
<1>3. Started' = Started /\ Latest' = Latest + 1
  BY <1>1, <1>2, TailSame, Where DEF Latest
<1> QED BY <1>1, <1>2, <1>3

LEMMA StaysDoes ==
  ASSUME TypeOK, TicketInv, BatchRight, Stays
  PROVE  /\ Started' = Started /\ Latest' = Latest /\ tailIndex' = tailIndex
         /\ UNCHANGED <<headIndex, tailBlock, next, pool, other, consumer>>
         /\ batch' = batch \/ \E n \in PutSizes : EnqueueStart(n)
         /\ ppc' # "base" /\ ppc' # "destroyed" /\ ppc # "destroyed"
         /\ ppc \in {"base", "entry"} \/ ppc' \notin {"base", "entry"}
         /\ StoreBase \/ base' = base
         /\ StoreBlock \/ block' = block
<1>1. CASE \E n \in PutSizes : EnqueueStart(n)
  <2>1. PICK n \in PutSizes : EnqueueStart(n)
    BY <1>1
  <2>2. n \in Nat
    BY SizeAssumption
  <2>3. /\ batch'.blocks = 0 /\ ppc = "idle" /\ ppc' \in {"ahead", "write"}
        /\ UNCHANGED <<counters, circle, contents, index, places, consumer>>
    BY <2>1, <2>2, StartDoes
  <2>4. Started' = Started
    BY <2>3, TailSame DEF counters
  <2>5. Latest = Started - 1 /\ Latest' = Latest
    BY <2>3, <2>4, IdleBatch, Where DEF InBatch, Latest
  <2> QED BY <1>1, <2>3, <2>4, <2>5 DEF counters, circle, places, index, entries
<1>2. CASE ~\E n \in PutSizes : EnqueueStart(n)
  <2>1. /\ UNCHANGED <<counters, circle, places, consumer, batch>>
        /\ StoreBase \/ base' = base
        /\ StoreBlock \/ block' = block
    BY <1>2 DEF Stays, NeedBlock, GoesOn, StoreBase, StoreBlock, StoreFront, WriteElements,
                index, entries
  <2>2. Started' = Started /\ Latest' = Latest
    BY <2>1, PlaceSame DEF counters
  <2>3. /\ ppc' # "base" /\ ppc' # "destroyed" /\ ppc # "destroyed"
        /\ ppc \in {"base", "entry"} \/ ppc' \notin {"base", "entry"}
    BY <1>2 DEF Stays, NeedBlock, GoesOn, StoreBase, StoreBlock, StoreFront, WriteElements
  <2> QED BY <2>1, <2>2, <2>3 DEF counters, circle, places
<1> QED BY <1>1, <1>2

\* A block that has elements is in the index.
LEMMA AtStarted ==
  ASSUME TypeOK, TicketInv, BatchRight, NEW p \in Int, p < Started
  PROVE  At(p) = block[p % IndexSize]
<1>1. Started \in Nat /\ Latest \in Int /\ batch.blocks \in Nat
      /\ Latest = Started - 1 + batch.blocks
  BY Where
<1>2. ppc \in {"base", "entry"} => batch.blocks > 0
  BY DEF BatchRight
<1>3. ppc \in {"base", "entry"} => p # Latest
  BY <1>1, <1>2
<1> QED BY <1>3 DEF At

\* A block in use keeps its place, whatever the producer does.
LEMMA ProducerAt ==
  ASSUME TypeOK, TicketInv, BatchRight, CircleRight, SlotsRight, RingRight, Producer,
         NEW p \in Nat, Live(p), p <= Latest'
  PROVE  At(p)' = At(p)
<1>0. /\ Started \in Nat /\ Latest \in Int /\ batch.blocks \in Nat
      /\ Latest = Started - 1 + batch.blocks /\ p <= Latest
  BY Where DEF Live
<1>1. CASE \E b \in Blocks : Gets(b)
  <2>1. PICK b \in Blocks : Gets(b)
    BY <1>1
  <2>2. Latest' = Latest + 1 /\ ppc \in {"ahead", "requisition"} /\ block' = block
    BY <2>1, GetsDoes
  <2>3. p # Latest'
    BY <1>0, <2>2
  <2> QED BY <2>2, <2>3 DEF At
<1>2. CASE Fails
  <2>1. /\ Latest' = Started - 1 /\ ppc \in {"room", "requisition"} /\ ppc' = "idle"
        /\ block' = block
    BY <1>2, FailsDoes DEF entries
  <2> QED BY <2>1 DEF At
<1>3. CASE Commit
  <2>1. block' = block /\ ppc = "commit" /\ ppc' = "idle"
    BY <1>3, CommitDoes DEF index, entries
  <2> QED BY <2>1 DEF At
<1>4. CASE Stays
  <2>1. /\ Latest' = Latest /\ tailBlock' = tailBlock
        /\ StoreBlock \/ block' = block
    BY <1>4, StaysDoes
  <2>2. CASE StoreBlock
    <3>1. /\ ppc = "entry" /\ ppc' \in {"ahead", "room", "front"}
          /\ block' = [block EXCEPT ![nextFront] = tailBlock]
      BY <2>2 DEF StoreBlock
    <3>2. nextFront = Latest % IndexSize /\ nextFront \in Entries
      BY <3>1 DEF SlotsRight, TypeOK
    <3>3. block \in [Entries -> Blocks \cup {Null}] /\ p % IndexSize \in Entries
      BY EntryIs DEF TypeOK
    <3>4. At(p)' = block'[p % IndexSize]
      BY <3>1 DEF At
    <3>5. CASE p = Latest
      <4>1. block'[p % IndexSize] = tailBlock
        BY <3>1, <3>2, <3>3, <3>5
      <4> QED BY <3>1, <3>4, <3>5, <4>1 DEF At
    <3>6. CASE p # Latest
      <4>1. p < Latest /\ Latest - p < IndexSize
        BY <1>0, <3>6, LivesFit
      <4>2. p % IndexSize # nextFront
        BY <1>0, <3>2, <4>1, EntriesDiffer
      <4>3. block'[p % IndexSize] = block[p % IndexSize]
        BY <3>1, <3>3, <4>2
      <4> QED BY <3>4, <3>6, <4>3 DEF At
    <3> QED BY <3>5, <3>6
  <2>3. CASE ~StoreBlock
    <3>1. block' = block
      BY <2>1, <2>3
    <3>2. ppc \in {"base", "entry"} <=> ppc' \in {"base", "entry"}
      BY <1>4, <2>3 DEF Stays, EnqueueStart, NeedBlock, GoesOn, StoreBase, StoreFront,
         WriteElements
    <3> QED BY <2>1, <3>1, <3>2 DEF At
  <2> QED BY <2>2, <2>3
<1> QED BY <1>1, <1>2, <1>3, <1>4, ProducerMoves

-----------------------------------------------------------------------------
(* The bases of the entries *)

BaseRight(e) ==
    \/ Matches(e)
    \/ base[e] = 0 /\ e > (IF ppc = "base" THEN Latest - 1 ELSE Latest)
AtBase(c) ==
    /\ pc[c] = "base" => Matches(found[c].entry)
    /\ pc[c] \in {"block", "move", "empty"} =>
          found[c].entry = Pos(found[c].index) % IndexSize
    /\ pc[c] \in {"move", "empty"} => found[c].block = At(Pos(found[c].index))

LEMMA BasesAre ==
  BasesRight <=> (\A e \in Entries : BaseRight(e)) /\ (\A c \in Claimants : AtBase(c))
  BY DEF BasesRight, BaseRight, AtBase

LEMMA SmallRemainder ==
  ASSUME NEW n \in Nat, n > 0, NEW p \in Nat
  PROVE  p % n \in Nat /\ p % n <= p
<1>1. PICK q \in Int, r \in 0 .. n - 1 : p = n * q + r /\ p % n = r
  BY Division
<1>2. CASE q < 0
  <2>1. n * (-q) >= n
    <3>1. -q >= 1 /\ -q \in Nat
      BY <1>2
    <3> QED BY <3>1
  <2>2. n * q = -(n * (-q))
    OBVIOUS
  <2> QED BY <1>1, <2>1, <2>2
<1>3. CASE q >= 0
  <2>1. n * q >= 0
    BY <1>3
  <2> QED BY <1>1, <2>1
<1> QED BY <1>1, <1>2, <1>3

LEMMA EntryAtMost ==
  ASSUME NEW p \in Nat
  PROVE  p % IndexSize \in Entries /\ p % IndexSize <= p /\ p % IndexSize \in Nat
  BY SizeAssumption, SmallRemainder, EntryIs

\* The base that is stored belongs to the entry.
LEMMA BeginMatches ==
  ASSUME NEW p \in Int
  PROVE  Begin(p) % BlockSize = 0 /\ Begin(p) \div BlockSize = p
<1>1. BlockSize \in Nat /\ BlockSize > 0 /\ Begin(p) \in Int
  BY SizeAssumption, Begins
<1>2. Begin(p) = BlockSize * p + 0 /\ 0 \in 0 .. BlockSize - 1
  <2>1. BlockSize * p \in Int
    BY <1>1
  <2> QED BY <1>1, <2>1 DEF Begin
<1> QED BY <1>1, <1>2, Quotient

LEMMA EntryBases ==
  ASSUME TypeOK, TicketInv, BatchRight, CircleRight, SlotsRight, Producer,
         \A e \in Entries : BaseRight(e), NEW e \in Entries
  PROVE  BaseRight(e)'
<1>0. /\ Started \in Nat /\ Latest \in Int /\ batch.blocks \in Nat
      /\ Latest = Started - 1 + batch.blocks /\ e \in Int /\ BaseRight(e)
  BY Where DEF Entries
<1>1. CASE \E b \in Blocks : Gets(b)
  <2>1. PICK b \in Blocks : Gets(b)
    BY <1>1
  <2>2. /\ Latest' = Latest + 1 /\ ppc' = "base" /\ base' = base
        /\ ppc \in {"ahead", "requisition"}
    BY <2>1, GetsDoes
  <2>3. Latest' - 1 = Latest
    BY <1>0, <2>2
  <2> QED BY <1>0, <2>2, <2>3 DEF BaseRight, Matches
<1>2. CASE Fails
  <2>1. /\ Latest' = Started - 1 /\ ppc \in {"room", "requisition"} /\ ppc' = "idle"
        /\ base' = base
    BY <1>2, FailsDoes DEF entries
  <2>2. e > Latest => e > Started - 1
    BY <1>0
  <2> QED BY <1>0, <2>1, <2>2 DEF BaseRight, Matches
<1>3. CASE Commit
  <2>1. base' = base /\ ppc = "commit" /\ ppc' = "idle" /\ Latest' = Latest
    BY <1>3, CommitDoes DEF index, entries
  <2> QED BY <1>0, <2>1 DEF BaseRight, Matches
<1>4. CASE Stays
  <2>1. Latest' = Latest /\ ppc' # "base" /\ (StoreBase \/ base' = base)
    BY <1>4, StaysDoes
  <2>2. CASE StoreBase
    <3>1. /\ ppc = "base" /\ base' = [base EXCEPT ![nextFront] = BlockStart(batch.blocks)]
          /\ base \in [Entries -> Nat] /\ nextFront \in Entries
      BY <2>2 DEF StoreBase, TypeOK
    <3>2. nextFront = Latest % IndexSize
      BY <3>1 DEF SlotsRight
    <3>3. BlockStart(batch.blocks) = Begin(Latest)
      BY <1>0, BlockStartIs DEF TypeOK
    <3>4. CASE e = nextFront
      <4>1. base'[e] = Begin(Latest)
        BY <3>1, <3>3, <3>4
      <4>2. base'[e] % BlockSize = 0 /\ base'[e] \div BlockSize = Latest
        BY <1>0, <4>1, BeginMatches
      <4> QED BY <3>2, <3>4, <4>2 DEF BaseRight, Matches
    <3>5. CASE e # nextFront
      <4>1. base'[e] = base[e]
        BY <3>1, <3>5
      <4>2. e # Latest
        BY <1>0, <3>2, <3>5, EntryIs
      <4>3. e > Latest - 1 => e > Latest
        BY <1>0, <4>2
      <4> QED BY <1>0, <2>1, <3>1, <4>1, <4>3 DEF BaseRight, Matches
    <3> QED BY <3>4, <3>5
  <2>3. CASE ~StoreBase
    <3>1. base' = base
      BY <2>1, <2>3
    <3>2. ppc # "base"
      BY <1>4, <2>3 DEF Stays, EnqueueStart, NeedBlock, GoesOn, StoreBlock, StoreFront,
         WriteElements
    <3> QED BY <1>0, <2>1, <3>1, <3>2 DEF BaseRight, Matches
  <2> QED BY <2>2, <2>3
<1> QED BY <1>1, <1>2, <1>3, <1>4, ProducerMoves

\* A claimed index is in a block that has elements and is in use.
LEMMA ClaimedPos ==
  ASSUME TypeOK, TicketInv, ClaimRight, NEW c \in Claimants
  PROVE  /\ Pos(found[c].index) \in Nat /\ Pos(found[c].index) < Started
         /\ Pos(found[c].index) <= Latest
         /\ Live(Pos(found[c].index))
<1>1. /\ NotEmptied(found[c].index) /\ found[c].index < tailIndex
      /\ found[c].index \in Nat /\ c \in Consumers
  BY ClaimFacts, FoundTypes
<1>2. /\ headIndex \in Nat /\ Started - 1 <= Latest /\ Started \in Nat /\ Latest \in Int
  BY Where
<1>3. Pos(found[c].index) \in Nat /\ Pos(found[c].index) < Started
  BY <1>1, PosOfNat, IndexBelow
<1>4. Needed(Pos(found[c].index))
  BY <1>1, <1>2, <1>3, NeededIs
<1> QED BY <1>2, <1>3, <1>4 DEF Live

LEMMA ProducerBases ==
  ASSUME TypeOK, TicketInv, ClaimRight, BatchRight, CircleRight, SlotsRight, BasesRight,
         RingRight, Producer
  PROVE  BasesRight'
<1>1. \A e \in Entries : BaseRight(e)'
  BY BasesAre, EntryBases
<1>2. UNCHANGED <<headIndex, consumer>>
  BY ProducerMoves
<1>3. Claimants' = Claimants /\ found' = found /\ pc' = pc
  BY <1>2, ConsumersSame DEF consumer
<1>4. ASSUME NEW c \in Claimants PROVE AtBase(c)'
  <2>0. AtBase(c)
    BY BasesAre
  <2>1. PICK p \in Nat : p = Pos(found[c].index) /\ p < Started /\ p <= Latest /\ Live(p)
    BY ClaimedPos
  <2>2. Latest' = Latest \/ Latest' = Latest + 1 \/ Latest' = Started - 1
    BY ProducerMoves, GetsDoes, FailsDoes, CommitDoes, StaysDoes
  <2>3. p <= Latest'
    BY <2>1, <2>2, Where
  <2>4. At(p)' = At(p)
    BY <2>1, <2>3, ProducerAt
  <2>5. ASSUME pc[c] \in {"move", "empty"}
        PROVE  found'[c].block = At(Pos(found[c].index))'
    <3>1. found[c].block = At(p)
      BY <2>0, <2>1, <2>5 DEF AtBase
    <3>2. Pos(found[c].index)' = p
      BY <1>3, <2>1 DEF Pos
    <3>3. At(Pos(found[c].index))' = At(p)'
      BY <3>2 DEF At
    <3> QED BY <1>3, <2>4, <3>1, <3>3
  <2>6. pc'[c] = "base" => Matches(found[c].entry)'
    <3>1. CASE pc[c] = "base"
      <4>1. Matches(found[c].entry)
        BY <2>0, <3>1 DEF AtBase
      <4>2. found[c].entry \in Entries /\ found'[c].entry = found[c].entry
        BY <1>3, FoundTypes DEF Claimants
      <4>3. base'[found[c].entry] = base[found[c].entry]
            \/ (StoreBase /\ found[c].entry = nextFront)
        <5>1. CASE StoreBase
          <6>1. base' = [base EXCEPT ![nextFront] = BlockStart(batch.blocks)]
                /\ base \in [Entries -> Nat]
            BY <5>1 DEF StoreBase, TypeOK
          <6> QED BY <4>2, <5>1, <6>1
        <5>2. CASE ~StoreBase
          <6>1. base' = base
            BY <5>2, ProducerMoves, GetsDoes, FailsDoes, CommitDoes, StaysDoes
               DEF entries, index
          <6> QED BY <6>1
        <5> QED BY <5>1, <5>2
      <4>4. CASE base'[found[c].entry] = base[found[c].entry]
        BY <4>1, <4>2, <4>4 DEF Matches
      <4>5. CASE StoreBase /\ found[c].entry = nextFront
        <5>1. /\ ppc = "base"
              /\ base' = [base EXCEPT ![nextFront] = BlockStart(batch.blocks)]
              /\ base \in [Entries -> Nat] /\ nextFront \in Entries
              /\ batch.blocks \in Nat /\ tailIndex \in Nat /\ Latest \in Int
          BY <4>5, BatchTypes, Where DEF StoreBase, TypeOK
        <5>2. base'[nextFront] = Begin(Latest) /\ nextFront = Latest % IndexSize
          BY <5>1, BlockStartIs DEF SlotsRight, Latest
        <5>3. base'[nextFront] % BlockSize = 0 /\ base'[nextFront] \div BlockSize = Latest
          BY <5>1, <5>2, BeginMatches
        <5> QED BY <4>2, <4>5, <5>2, <5>3 DEF Matches
      <4> QED BY <4>3, <4>4, <4>5
    <3> QED BY <1>3, <3>1
  <2>7. pc'[c] \in {"block", "move", "empty"} =>
           found'[c].entry = Pos(found'[c].index) % IndexSize
    BY <1>3, <2>0 DEF AtBase
  <2> QED BY <1>3, <2>5, <2>6, <2>7 DEF AtBase, Pos
<1>5. (\A e \in Entries : BaseRight(e)') /\ (\A c \in Claimants' : AtBase(c)')
  BY <1>1, <1>3, <1>4
<1> QED BY <1>5, BasesAre DEF BasesRight, BaseRight, AtBase

LEMMA BasesOfOthers ==
  ASSUME BasesRight, UNCHANGED <<tailIndex, circle, index, places, producer>>,
         NEW c, Claimants' \subseteq Claimants \cup {c},
         \A d \in Claimants : d # c => found'[d] = found[d] /\ pc'[d] = pc[d],
         c \in Claimants' => AtBase(c)'
  PROVE  BasesRight'
<1>0. (\A e \in Entries : BaseRight(e)) /\ (\A d \in Claimants : AtBase(d))
  BY BasesAre
<1>1. /\ Started' = Started /\ Latest' = Latest /\ base' = base /\ ppc' = ppc
      /\ \A p : At(p)' = At(p)
  BY ProducerSame
<1>2. \A e \in Entries : BaseRight(e)'
  BY <1>0, <1>1 DEF BaseRight, Matches
<1>3. ASSUME NEW d \in Claimants' PROVE AtBase(d)'
  <2>1. CASE d = c
    BY <2>1
  <2>2. CASE d # c
    <3>1. d \in Claimants /\ found'[d] = found[d] /\ pc'[d] = pc[d] /\ AtBase(d)
      BY <1>0, <2>2
    <3>2. PICK p : p = Pos(found[d].index)
      OBVIOUS
    <3>3. At(Pos(found[d].index))' = At(p)'
      BY <3>1, <3>2 DEF At, Pos
    <3>4. At(p)' = At(p)
      BY <1>1
    <3> QED BY <1>1, <3>1, <3>2, <3>3, <3>4 DEF AtBase, Matches, Pos
  <2> QED BY <2>1, <2>2
<1> QED BY <1>2, <1>3 DEF BasesRight, BaseRight, AtBase

\* The front entry has the base of its block.
LEMMA FrontMatches ==
  ASSUME TypeOK, TicketInv, BatchRight, SlotsRight, BasesRight, Started > 0
  PROVE  front \in Entries /\ Matches(front)
<1>1. /\ Started \in Nat /\ Latest \in Int /\ batch.blocks \in Nat
      /\ Latest = Started - 1 + batch.blocks
  BY Where
<1>2. PICK p \in Nat : /\ front = p % IndexSize
                       /\ p <= (IF ppc = "base" THEN Latest - 1 ELSE Latest)
  <2>1. CASE ppc \in {"write", "commit"}
    <3>1. front = Latest % IndexSize /\ Latest \in Nat
      BY <1>1, <2>1 DEF SlotsRight
    <3> QED BY <2>1, <3>1
  <2>2. CASE ppc \notin {"write", "commit"}
    <3>1. front = (Started - 1) % IndexSize /\ Started - 1 \in Nat
      BY <1>1, <2>2 DEF SlotsRight
    <3>2. ppc = "base" => batch.blocks > 0
      BY DEF BatchRight
    <3>3. Started - 1 <= (IF ppc = "base" THEN Latest - 1 ELSE Latest)
      BY <1>1, <3>2
    <3> QED BY <3>1, <3>3
  <2> QED BY <2>1, <2>2
<1>3. front \in Entries /\ front \in Nat /\ front <= p
  BY <1>2, EntryAtMost
<1>4. BaseRight(front)
  BY <1>3, BasesAre
<1>5. ~(front > (IF ppc = "base" THEN Latest - 1 ELSE Latest))
  BY <1>1, <1>2, <1>3
<1> QED BY <1>3, <1>4, <1>5 DEF BaseRight

\* Counting back from the base of any entry.
LEMMA CountsBack ==
  ASSUME NEW e \in Entries, NEW p \in Int, base[e] \in Nat, Matches(e)
  PROVE  (e + ((Begin(p) - base[e]) \div BlockSize)) % IndexSize = p % IndexSize
<1>1. PICK q \in Int : base[e] = Begin(q) /\ q % IndexSize = e
  <2>1. BlockSize \in Nat /\ BlockSize > 0 /\ base[e] % BlockSize = 0
        /\ (base[e] \div BlockSize) % IndexSize = e /\ base[e] \in Int
    BY SizeAssumption DEF Matches
  <2>2. PICK q \in Int, r \in 0 .. BlockSize - 1 :
           base[e] = BlockSize * q + r /\ base[e] % BlockSize = r /\ base[e] \div BlockSize = q
    BY <2>1, Division
  <2>3. base[e] = BlockSize * q
    <3>1. r = 0 /\ BlockSize * q \in Int
      BY <2>1, <2>2
    <3> QED BY <2>2, <3>1
  <2> QED BY <2>1, <2>2, <2>3 DEF Begin
<1>2. BlockSize * p - BlockSize * q = BlockSize * (p - q) /\ BlockSize * (p - q) \in Int
  BY SizeAssumption
<1>3. PICK d \in Int : d = p - q
  OBVIOUS
<1>4. Begin(p) - base[e] = Begin(d)
  BY <1>1, <1>2, <1>3 DEF Begin
<1>5. (Begin(p) - base[e]) \div BlockSize = d
  BY <1>4, BeginMatches
<1>6. (e + d) % IndexSize = p % IndexSize
  <2>1. IndexSize \in Nat /\ IndexSize > 0
    BY SizeAssumption
  <2>2. ((q % IndexSize) + (p - q)) % IndexSize = p % IndexSize
    BY <2>1, RemainderPlus
  <2> QED BY <1>1, <1>3, <2>2
<1> QED BY <1>5, <1>6

LEMMA LookupBase ==
  ASSUME TypeOK, TicketInv, ClaimRight, BatchRight, SlotsRight, BasesRight,
         NEW c \in Consumers, LooksUp(c)
  PROVE  AtBase(c)' /\ found'[c].entry \in Entries
<1>1. /\ pc[c] \in {"front", "base", "block"} /\ c \in Claimants
      /\ found'[c].first = found[c].first /\ found'[c].index = found[c].index
  BY LookupDoes
<1>2. UNCHANGED <<tailIndex, circle, index, places, producer>>
  BY ProducerStays DEF LooksUp, Consumer
<1>3. base' = base /\ \A p : At(p)' = At(p)
  BY <1>2, ProducerSame
<1>4. PICK p \in Nat : p = Pos(found[c].index) /\ p < Started
  BY <1>1, ClaimedPos
<1>5. AtBase(c) /\ found[c] \in AllFounds /\ found \in [Consumers -> AllFounds]
      /\ found[c].entry \in Entries /\ found[c].index \in Nat
  BY <1>1, BasesAre, FoundTypes
<1>6. Started \in Nat
  BY Where
<1>7. CASE LoadFront(c)
  <2>1. pc'[c] = "base" /\ found' = [found EXCEPT ![c].entry = front]
    BY <1>7, PlacesOf DEF LoadFront, Goto
  <2>2. front \in Entries /\ Matches(front)
    BY <1>4, <1>6, FrontMatches
  <2>3. found'[c] = [found[c] EXCEPT !.entry = front]
    BY <1>5, <2>1
  <2>4. found'[c].entry = front
    BY <1>5, <2>3 DEF AllFounds
  <2> QED BY <1>3, <2>1, <2>2, <2>4 DEF AtBase, Matches
<1>8. CASE LoadBase(c)
  <2> DEFINE e == (found[c].entry
                     + ((Base(found[c].index) - base[found[c].entry]) \div BlockSize)) % IndexSize
  <2>1. pc'[c] = "block" /\ pc[c] = "base" /\ found' = [found EXCEPT ![c].entry = e]
    BY <1>8, PlacesOf DEF LoadBase, Goto
  <2>2. e = p % IndexSize
    <3>1. Base(found[c].index) = Begin(p)
      BY <1>4, <1>5, Index
    <3>2. Matches(found[c].entry) /\ base[found[c].entry] \in Nat
      BY <1>5, <2>1 DEF AtBase, TypeOK
    <3> QED BY <1>5, <3>1, <3>2, CountsBack
  <2> HIDE DEF e
  <2>3. e \in Entries
    BY <2>2, EntryIs
  <2>4. found'[c] = [found[c] EXCEPT !.entry = e]
    BY <1>5, <2>1
  <2>5. found'[c].entry = e
    BY <1>5, <2>4 DEF AllFounds
  <2>6. Pos(found[c].index)' = p
    BY <1>1, <1>4 DEF Pos
  <2>7. found'[c].entry = Pos(found'[c].index) % IndexSize
    BY <1>1, <1>4, <2>2, <2>5
  <2> QED BY <2>1, <2>3, <2>5, <2>7 DEF AtBase, Pos
<1>9. CASE LoadBlock(c)
  <2>1. /\ pc'[c] = "move" /\ pc[c] = "block"
        /\ found' = [found EXCEPT ![c].block = block[found[c].entry]]
    BY <1>9, PlacesOf DEF LoadBlock, Goto
  <2>2. found[c].entry = p % IndexSize
    BY <1>4, <1>5, <2>1 DEF AtBase
  <2>3. block[found[c].entry] = At(p)
    BY <1>4, <1>6, <2>2, AtStarted
  <2>4. found'[c] = [found[c] EXCEPT !.block = At(p)]
    BY <1>5, <2>1, <2>3
  <2>5. found'[c].block = At(p) /\ found'[c].entry = found[c].entry
    BY <1>5, <2>4 DEF AllFounds
  <2>6. At(Pos(found[c].index))' = At(p)'
    BY <1>1, <1>4 DEF At, Pos
  <2>7. At(p)' = At(p)
    BY <1>3
  <2>8. found'[c].entry = Pos(found'[c].index) % IndexSize
    BY <1>1, <1>4, <2>2, <2>5
  <2> QED BY <1>5, <2>1, <2>5, <2>6, <2>7, <2>8 DEF AtBase, Pos
<1> QED BY <1>7, <1>8, <1>9 DEF LooksUp

\* The step to the next block.
LEMMA NextBase ==
  ASSUME TypeOK, TicketInv, ClaimRight, BasesRight, NEW c \in Consumers, SetEmpty(c),
         MovedTo(c) # ClaimedTo(c)
  PROVE  /\ MovedTo(c) = Begin(Pos(found[c].index) + 1)
         /\ Pos(MovedTo(c)) = Pos(found[c].index) + 1
         /\ AtBase(c)'
<1>1. /\ pc[c] = "empty" /\ c \in Claimants /\ pc'[c] = "block"
      /\ found'[c].index = MovedTo(c) /\ found'[c].entry = EntryAfter(found[c].entry)
  BY SetEmptyDoes
<1>2. PICK p \in Nat : p = Pos(found[c].index)
  BY <1>1, ClaimedPos
<1>3. Base(found[c].index) = Begin(p) /\ Begin(p) \in Nat /\ BlockSize \in Nat
      /\ ClaimedTo(c) \in Nat /\ found[c].index \in Nat
  <2>1. found[c].index \in Nat /\ ClaimedTo(c) \in Nat
    BY FoundTypes
  <2>2. Base(found[c].index) = Begin(Pos(found[c].index))
    BY <2>1, Index
  <2> QED BY <1>2, <2>1, <2>2, Begins, SizeAssumption
<1>4. MovedTo(c) = Min2(Begin(p) + BlockSize, ClaimedTo(c))
  BY <1>1, <1>3 DEF ClaimRight
<1>5. MovedTo(c) = Begin(p) + BlockSize
  BY <1>3, <1>4 DEF Min2
<1>6. Begin(p + 1) = Begin(p) + BlockSize
  BY Begins
<1>7. Pos(Begin(p + 1)) = p + 1
  <2>1. p + 1 \in Int /\ 0 \in Cells
    BY SizeAssumption DEF Cells
  <2>2. Begin(p + 1) \in Int /\ Begin(p + 1) + 0 = Begin(p + 1)
    BY <2>1, Begins
  <2> QED BY <2>1, <2>2, CellsOf
<1>8. MovedTo(c) = Begin(p + 1)
  BY <1>5, <1>6
<1>9. found[c].entry = p % IndexSize
  BY <1>1, <1>2, BasesAre DEF AtBase
<1>10. found'[c].entry = (p + 1) % IndexSize
  BY <1>1, <1>9, EntryNext
<1>11. found'[c].entry = Pos(found'[c].index) % IndexSize
  BY <1>1, <1>7, <1>8, <1>10
<1> QED BY <1>1, <1>2, <1>7, <1>8, <1>11 DEF AtBase, Pos

LEMMA ConsumerBases ==
  ASSUME TypeOK, TicketInv, ClaimRight, BatchRight, SlotsRight, BasesRight,
         NEW c \in Consumers, Consumer(c)
  PROVE  BasesRight'
<1>0. UNCHANGED <<tailIndex, circle, index, places, producer>>
  BY ProducerStays
<1>1. Claimants \subseteq Consumers /\ Claimants' \subseteq Consumers
  BY DEF Claimants
<1>2. \A d \in Consumers : d # c =>
         (d \in Claimants <=> d \in Claimants') /\ found'[d] = found[d] /\ pc'[d] = pc[d]
  BY ClaimsOfOthers
<1>3. Claimants' \subseteq Claimants \cup {c}
  BY <1>1, <1>2
<1>4. \A d \in Claimants : d # c => found'[d] = found[d] /\ pc'[d] = pc[d]
  BY <1>1, <1>2
<1>5. ASSUME c \in Claimants' PROVE AtBase(c)'
  <2>1. CASE Early(c)
    BY <1>5, <2>1, EarlyDoes
  <2>2. CASE Claim(c)
    <3>1. pc'[c] = "front"
      BY <2>2, ClaimsAt
    <3> QED BY <3>1 DEF AtBase
  <2>3. CASE LooksUp(c)
    BY <2>3, LookupBase
  <2>4. CASE MoveElements(c)
    <3>1. /\ pc[c] = "move" /\ pc'[c] = "empty" /\ c \in Claimants
          /\ found'[c].index = found[c].index
          /\ found'[c].entry = found[c].entry /\ found'[c].block = found[c].block
      BY <2>4, MoveDoes
    <3>2. AtBase(c)
      BY <3>1, BasesAre
    <3>3. PICK p : p = Pos(found[c].index)
      OBVIOUS
    <3>4. At(Pos(found[c].index))' = At(p)'
      BY <3>1, <3>3 DEF At, Pos
    <3>5. At(p)' = At(p)
      BY <1>0, ProducerSame
    <3> QED BY <3>1, <3>2, <3>3, <3>4, <3>5 DEF AtBase, Pos
  <2>5. CASE SetEmpty(c)
    <3>1. MovedTo(c) # ClaimedTo(c)
      <4>1. ASSUME MovedTo(c) = ClaimedTo(c) PROVE FALSE
        <5>1. Claimants' = Claimants \ {c}
          BY <2>5, <4>1, SetEmptyDoes
        <5> QED BY <1>5, <5>1
      <4> QED BY <4>1
    <3> QED BY <2>5, <3>1, NextBase
  <2> QED BY <2>1, <2>2, <2>3, <2>4, <2>5 DEF Consumer, Early, LooksUp
<1> QED BY <1>0, <1>3, <1>4, <1>5, BasesOfOthers

LEMMA OthersLeave ==
  ASSUME Others
  PROVE  UNCHANGED <<counters, circle, contents, index, producer, consumer>> /\ Own' = Own
<1>1. UNCHANGED <<counters, circle, contents, index, producer, consumer>>
  BY DEF Others, OtherTakes, OtherReturns
<1>2. Own' = Own
  BY DEF Others, OtherTakes, OtherReturns, Own
<1> QED BY <1>1, <1>2

\* What does not depend on where the blocks of others are.
LEMMA OthersSame ==
  ASSUME Others
  PROVE  /\ Started' = Started /\ Latest' = Latest /\ Own' = Own /\ Claimants' = Claimants
         /\ ppc' = ppc /\ batch' = batch /\ tailBlock' = tailBlock /\ next' = next
         /\ base' = base /\ block' = block /\ found' = found /\ pc' = pc
         /\ emptyFlags' = emptyFlags /\ elements' = elements
         /\ tailIndex' = tailIndex /\ headIndex' = headIndex
         /\ UNCHANGED <<headIndex, consumer>>
         /\ \A p : At(p)' = At(p)
<1>1. UNCHANGED <<counters, circle, contents, index, producer, consumer>> /\ Own' = Own
  BY OthersLeave
<1>2. /\ tailIndex' = tailIndex /\ headIndex' = headIndex /\ tailBlock' = tailBlock
      /\ next' = next /\ elements' = elements /\ emptyFlags' = emptyFlags /\ base' = base
      /\ block' = block /\ ppc' = ppc /\ batch' = batch /\ pc' = pc /\ found' = found
  BY <1>1 DEF counters, circle, contents, index, entries, producer, consumer
<1>3. Started' = Started /\ Latest' = Latest /\ Claimants' = Claimants
  BY <1>2, PlaceSame DEF Claimants
<1>4. \A p : At(p)' = At(p)
  BY <1>2, <1>3 DEF At
<1> QED BY <1>1, <1>2, <1>3, <1>4

LEMMA NotDestroyed ==
  ASSUME Next, ppc' # "destroyed"
  PROVE  ppc # "destroyed" /\ ~Destroy
<1>1. CASE Producer
  BY <1>1, ProducerCases DEF EnqueueStart, ReuseBlock, NeedBlock, GoesOn, Fails, Takes,
     StoreBase, StoreBlock, StoreFront, WriteElements, Commit, Destroy
<1>2. CASE Others
  BY <1>2, OthersSame DEF Destroy
<1>3. CASE Destroy
  BY <1>3 DEF Destroy
<1>4. ASSUME NEW c \in Consumers, Consumer(c) PROVE ppc # "destroyed" /\ ~Destroy
  <2>1. ppc' = ppc
    BY <1>4, ProducerStays DEF producer
  <2> QED BY <2>1 DEF Destroy
<1> QED BY <1>1, <1>2, <1>3, <1>4, NextCases

LEMMA StepBases ==
  ASSUME TypeOK, TicketInv, LayoutInv, Next, ppc' # "destroyed"
  PROVE  BasesRight'
<1>0. ppc # "destroyed" /\ ~Destroy
      /\ ClaimRight /\ BatchRight /\ CircleRight /\ SlotsRight /\ BasesRight /\ RingRight
  BY NotDestroyed, LayoutParts
<1>1. CASE Producer
  BY <1>0, <1>1, ProducerBases
<1>2. CASE Others
  <2>1. /\ Latest' = Latest /\ ppc' = ppc /\ base' = base /\ Claimants' = Claimants
        /\ found' = found /\ pc' = pc /\ \A p : At(p)' = At(p)
    BY <1>2, OthersSame
  <2>2. \A e \in Entries : Matches(e)' <=> Matches(e)
    BY <2>1 DEF Matches
  <2>3. \A d \in Claimants : At(Pos(found[d].index))' = At(Pos(found[d].index))
    BY <2>1 DEF At, Pos
  <2>4. \A d \in Claimants : Matches(found[d].entry)' <=> Matches(found[d].entry)
    BY <2>1 DEF Matches
  <2>5. \A e \in Entries : BaseRight(e)'
    BY <1>0, <2>1, <2>2, BasesAre DEF BaseRight
  <2>6. \A d \in Claimants' : AtBase(d)'
    BY <1>0, <2>1, <2>3, <2>4, BasesAre DEF AtBase, Pos
  <2> QED BY <2>5, <2>6 DEF BasesRight, BaseRight, AtBase
<1>3. ASSUME NEW c \in Consumers, Consumer(c) PROVE BasesRight'
  BY <1>0, <1>3, ConsumerBases
<1> QED BY <1>0, <1>1, <1>2, <1>3, NextCases

-----------------------------------------------------------------------------
(* The ring of the blocks in use: steps of consumers *)

LEMMA LiveUp ==
  ASSUME TypeOK, TicketInv, NEW p \in Int, Live(p), NEW q \in p .. Latest
  PROVE  Live(q) /\ q \in Nat
  BY Where, NeededMono DEF Live

LEMMA RingShrinks ==
  ASSUME TypeOK, TicketInv, RingRight,
         UNCHANGED <<tailIndex, circle, index, places, producer>>,
         \A p \in Int : Needed(p)' => Needed(p)
  PROVE  RingRight'
<1>0. /\ Started' = Started /\ Latest' = Latest /\ Own' = Own
      /\ ppc' = ppc /\ batch' = batch /\ tailBlock' = tailBlock /\ next' = next
      /\ base' = base
      /\ \A p : At(p)' = At(p)
  BY ProducerSame
<1>1. Started \in Nat /\ Latest \in Int
  BY Where
<1>2. PICK s, l : s = Started /\ l = Latest
  OBVIOUS
<1>3. \A p \in Int : Live(p)' => Live(p)
  BY <1>0 DEF Live
<1>4. Live(Started - 1)' => Live(Started - 1)
  <2>1. s - 1 \in Int
    BY <1>1, <1>2
  <2>2. Live(s - 1)' => Live(s - 1)
    BY <1>3, <2>1
  <2>3. Live(Started - 1)' <=> Live(s - 1)'
    BY <1>0, <1>2 DEF Live, Needed
  <2> QED BY <1>2, <2>2, <2>3
<1>5. Live(Latest)' => Live(Latest)
  <2>1. Live(l)' => Live(l)
    BY <1>1, <1>2, <1>3
  <2>2. Live(Latest)' <=> Live(l)'
    BY <1>0, <1>2 DEF Live, Needed
  <2> QED BY <1>2, <2>1, <2>2
<1>6. At(Latest)' = At(Latest) /\ At(Started - 1)' = At(Started - 1) /\ At(Started)' = At(Started)
  BY <1>0 DEF At
<1>7. \A p : At(p + 1)' = At(p + 1)
  BY <1>0 DEF At
<1>8. \A p \in 0 .. Latest : Live(p)' => At(p)' \in Own
  BY <1>0, <1>3 DEF RingRight
<1>9. \A p, q \in 0 .. Latest : Live(p)' /\ Live(q)' /\ At(p)' = At(q)' => p = q
  BY <1>0, <1>3 DEF RingRight
<1>10. \A p \in 0 .. Latest - 1 : Live(p)' => next[At(p)'] = At(p + 1)'
  BY <1>0, <1>3, <1>7 DEF RingRight
<1>11. \A p \in 0 .. Latest : Live(p)' =>
          (ppc = "base" /\ p = Latest) \/ base[p % IndexSize] = BlockSize * p
  BY <1>3 DEF RingRight
<1> QED BY <1>0, <1>4, <1>5, <1>6, <1>8, <1>9, <1>10, <1>11 DEF RingRight, InBatch

LEMMA FlagsFrame ==
  ASSUME TypeOK, TicketInv, FlagsRight,
         UNCHANGED <<tailIndex, circle, index, places, producer, emptyFlags>>,
         \A p \in Int : Needed(p)' <=> Needed(p),
         \A p \in Int : Emptied(p)' = Emptied(p)
  PROVE  FlagsRight'
<1>0. /\ Started' = Started /\ Latest' = Latest /\ Own' = Own /\ ppc' = ppc
      /\ emptyFlags' = emptyFlags
      /\ \A p : At(p)' = At(p)
  BY ProducerSame
<1>1. \A p \in Int : Live(p)' <=> Live(p)
  BY <1>0 DEF Live
<1> QED BY <1>0, <1>1 DEF FlagsRight, IsEmpty

\* What a step of Block::set_empty leaves.
LEMMA EmptyNeeds ==
  ASSUME TypeOK, TicketInv, ClaimRight, NEW c \in Consumers, SetEmpty(c)
  PROVE  /\ \A i \in Int : NotEmptied(i)' <=>
               NotEmptied(i) /\ i \notin found[c].index .. MovedTo(c) - 1
         /\ \A p \in Int : Needed(p)' => Needed(p)
         /\ headIndex' = headIndex
<1>0. /\ pc[c] = "empty" /\ c \in Claimants /\ headIndex' = headIndex
      /\ \A d \in Consumers : d # c =>
            /\ ClaimedTo(d)' = ClaimedTo(d) /\ found'[d] = found[d]
  BY SetEmptyDoes
<1>1. PICK f \in Nat, m \in Nat, t \in Nat :
         /\ f = found[c].index /\ m = MovedTo(c) /\ t = ClaimedTo(c)
         /\ f < m /\ m <= t
  <2>1. MovedTo(c) = MoveEnd(c)
    BY <1>0 DEF ClaimRight, MoveEnd
  <2> QED BY <1>0, <2>1, FoundTypes, MoveEnds
<1>2. headIndex \in Nat /\ t <= headIndex /\ Claimants \subseteq Consumers
  BY <1>0, <1>1 DEF ClaimRight, TypeOK, Claimants
<1>3. \A d \in Claimants : d # c => found[d].index \in Nat /\ ClaimedTo(d) \in Nat
         /\ (ClaimedTo(d) <= f \/ t <= found[d].index)
  BY <1>0, <1>1, <1>2, FoundTypes DEF ClaimRight
<1>4. /\ \A d \in Claimants' : d # c => d \in Claimants
      /\ \A d \in Claimants : d # c => d \in Claimants'
      /\ c \in Claimants' <=> m # t
      /\ c \in Claimants' => found'[c].index = m /\ ClaimedTo(c)' = t
  BY <1>0, <1>1, SetEmptyDoes
<1>5. ASSUME NEW i \in Int
      PROVE  NotEmptied(i)' <=> NotEmptied(i) /\ i \notin f .. m - 1
  <2> DEFINE ByOthers == \E d \in Claimants : d # c /\ i \in found[d].index .. ClaimedTo(d) - 1
  <2>1. NotEmptied(i) <=> i >= headIndex \/ ByOthers \/ i \in f .. t - 1
    BY <1>0, <1>1 DEF NotEmptied
  <2>2. NotEmptied(i)' <=> i >= headIndex \/ ByOthers \/ (m # t /\ i \in m .. t - 1)
    <3>1. ASSUME NEW d \in Claimants', d # c, i \in found'[d].index .. ClaimedTo(d)' - 1
          PROVE  ByOthers
      BY <1>0, <1>2, <1>4, <3>1
    <3>2. ASSUME NEW d \in Claimants, d # c, i \in found[d].index .. ClaimedTo(d) - 1
          PROVE  \E e \in Claimants' : i \in found'[e].index .. ClaimedTo(e)' - 1
      BY <1>0, <1>2, <1>4, <3>2
    <3> QED BY <1>0, <1>4, <3>1, <3>2 DEF NotEmptied
  <2>3. i \in f .. m - 1 => ~(i >= headIndex) /\ ~ByOthers
    <3>1. ASSUME i \in f .. m - 1 PROVE ~(i >= headIndex)
      BY <1>1, <1>2, <3>1
    <3>2. ASSUME i \in f .. m - 1, NEW d \in Claimants, d # c,
                 i \in found[d].index .. ClaimedTo(d) - 1
          PROVE  FALSE
      <4>1. PICK g \in Nat, u \in Nat : g = found[d].index /\ u = ClaimedTo(d)
                                        /\ (u <= f \/ t <= g)
        BY <1>3, <3>2
      <4>2. i \in g .. u - 1
        BY <3>2, <4>1
      <4>3. i >= f /\ i < m /\ i >= g /\ i < u /\ m <= t
        BY <1>1, <3>2, <4>2
      <4> QED BY <4>1, <4>3
    <3> QED BY <3>1, <3>2
  <2>4. i \in f .. t - 1 <=> i \in f .. m - 1 \/ (m # t /\ i \in m .. t - 1)
    BY <1>1
  <2>5. ~(i \in f .. m - 1 /\ i \in m .. t - 1)
    BY <1>1
  <2> HIDE DEF ByOthers
  <2> QED BY <2>1, <2>2, <2>3, <2>4, <2>5
<1>6. ASSUME NEW p \in Int, Needed(p)' PROVE Needed(p)
  <2>1. PICK i \in 0 .. headIndex : NotEmptied(i)' /\ Pos(i)' <= p
    BY <1>0, <1>6 DEF Needed
  <2>2. NotEmptied(i) /\ Pos(i)' = Pos(i)
    BY <1>5, <2>1 DEF Pos
  <2> QED BY <2>1, <2>2 DEF Needed
<1> QED BY <1>0, <1>1, <1>5, <1>6

\* The flags a step sets are those of the cells it has emptied.
LEMMA EmptyFlagsOf ==
  ASSUME TypeOK, TicketInv, ClaimRight, BasesRight, RingRight, FlagsRight, BatchRight,
         NEW c \in Consumers, SetEmpty(c), NEW p \in Nat, Live(p)
  PROVE  emptyFlags'[At(p)] = IF p < Started \/ ppc \in {"write", "commit"}
                              THEN Emptied(p)' ELSE Cells
<1>0. /\ pc[c] = "empty" /\ c \in Claimants
      /\ emptyFlags' = [emptyFlags EXCEPT ![found[c].block] =
            emptyFlags[found[c].block] \cup {Cell(i) : i \in found[c].index .. MovedTo(c) - 1}]
  BY SetEmptyDoes
<1>1. PICK q \in Nat : q = Pos(found[c].index) /\ q < Started /\ q <= Latest /\ Live(q)
  BY <1>0, ClaimedPos
<1>2. found[c].block = At(q)
  BY <1>0, <1>1, BasesAre DEF AtBase
<1>3. /\ p \in 0 .. Latest /\ q \in 0 .. Latest /\ At(q) \in Blocks /\ At(p) \in Blocks
      /\ emptyFlags \in [Blocks -> SUBSET Cells]
      /\ At(p) = At(q) => p = q
  BY <1>1 DEF RingRight, Own, Live, TypeOK
<1>4. emptyFlags[At(p)] = IF p < Started \/ ppc \in {"write", "commit"}
                          THEN Emptied(p) ELSE Cells
  BY <1>3 DEF FlagsRight
<1>5. \A i \in found[c].index .. MovedTo(c) - 1 :
         Pos(i) = q /\ Cell(i) \in Cells /\ Begin(q) + Cell(i) = i /\ i \in Int
  <2>1. MovedTo(c) = MoveEnd(c)
    BY <1>0 DEF ClaimRight, MoveEnd
  <2>2. \A i \in found[c].index .. MoveEnd(c) - 1 :
           /\ i \in Nat /\ Pos(i) = Pos(found[c].index)
           /\ Cell(i) \in Cells /\ Base(found[c].index) + Cell(i) = i
    BY <1>0, MoveEnds
  <2>3. Base(found[c].index) = Begin(q)
    <3>1. found[c].index \in Int
      BY FoundTypes
    <3> QED BY <1>1, <3>1, Index
  <2> QED BY <1>1, <2>1, <2>2, <2>3
<1>6. \A j \in Cells : NotEmptied(BlockSize * p + j)' <=>
         NotEmptied(BlockSize * p + j) /\ BlockSize * p + j \notin found[c].index .. MovedTo(c) - 1
  <2>1. \A j \in Cells : BlockSize * p + j \in Int
    BY CellsOf DEF Begin
  <2> QED BY <2>1, EmptyNeeds
<1>7. CASE p = q
  <2>1. emptyFlags'[At(p)] = Emptied(p) \cup {Cell(i) : i \in found[c].index .. MovedTo(c) - 1}
    BY <1>0, <1>1, <1>2, <1>3, <1>4, <1>7
  <2>2. ASSUME NEW j \in Cells
        PROVE  BlockSize * p + j \in found[c].index .. MovedTo(c) - 1 <=>
                  j \in {Cell(i) : i \in found[c].index .. MovedTo(c) - 1}
    <3>1. BlockSize * p + j = Begin(q) + j /\ Cell(Begin(q) + j) = j
      BY <1>7, CellsOf DEF Begin
    <3>2. ASSUME NEW i \in found[c].index .. MovedTo(c) - 1, Cell(i) = j
          PROVE  BlockSize * p + j = i
      BY <1>5, <3>1, <3>2
    <3> QED BY <3>1, <3>2
  <2>3. {Cell(i) : i \in found[c].index .. MovedTo(c) - 1} \subseteq Cells
    BY <1>5
  <2>4. Emptied(p)' = Emptied(p) \cup {Cell(i) : i \in found[c].index .. MovedTo(c) - 1}
    BY <1>6, <2>2, <2>3 DEF Emptied
  <2> QED BY <1>1, <1>7, <2>1, <2>4
<1>8. CASE p # q
  <2>1. emptyFlags'[At(p)] = emptyFlags[At(p)]
    BY <1>0, <1>2, <1>3, <1>8
  <2>2. \A j \in Cells : BlockSize * p + j \notin found[c].index .. MovedTo(c) - 1
    <3>1. \A j \in Cells : Pos(BlockSize * p + j) = p
      BY CellsOf DEF Begin
    <3> QED BY <1>5, <1>8, <3>1
  <2>3. Emptied(p)' = Emptied(p)
    BY <1>6, <2>2 DEF Emptied
  <2> QED BY <1>4, <2>1, <2>3
<1> QED BY <1>7, <1>8

\* A block that is needed no more has been emptied.
LEMMA EmptyFlagsStep ==
  ASSUME TypeOK, TicketInv, ClaimRight, BasesRight, RingRight, FlagsRight, BatchRight,
         NEW c \in Consumers, SetEmpty(c)
  PROVE  FlagsRight'
<1>0. UNCHANGED <<tailIndex, circle, index, places, producer>> /\ headIndex' = headIndex
  BY ProducerStays, EmptyNeeds DEF Consumer
<1>1. /\ Started' = Started /\ Latest' = Latest /\ Own' = Own /\ ppc' = ppc
      /\ \A p : At(p)' = At(p)
  BY <1>0, ProducerSame
<1>2. \A p \in Int : Live(p)' => Live(p)
  BY <1>1, EmptyNeeds DEF Live
<1>3. \A p \in 0 .. Latest' : Live(p)' =>
         emptyFlags'[At(p)'] = IF p < Started' \/ ppc' \in {"write", "commit"}
                               THEN Emptied(p)' ELSE Cells
  BY <1>1, <1>2, EmptyFlagsOf
<1>4. ASSUME NEW b \in Own, \A p \in 0 .. Latest : Live(p)' => b # At(p)
      PROVE  emptyFlags'[b] = Cells
  <2>1. CASE \E p \in 0 .. Latest : Live(p) /\ b = At(p)
    <3>1. PICK p \in 0 .. Latest : Live(p) /\ b = At(p)
      BY <2>1
    <3>2. ~Needed(p)'
      BY <1>1, <1>4, <3>1 DEF Live
    <3>3. headIndex' \in Nat /\ headIndex \in Nat /\ Started \in Nat /\ Pos(headIndex) \in Nat
          /\ Pos(headIndex) <= Started /\ p \in Int
      BY <1>0, Where
    <3>4. ~(Pos(headIndex) <= p)
      <4>1. ASSUME Pos(headIndex) <= p PROVE FALSE
        <5>3. NotEmptied(headIndex)' /\ Pos(headIndex)' <= p /\ headIndex' \in 0 .. headIndex'
          BY <3>3, <4>1, <1>0 DEF NotEmptied, Pos
        <5>4. Needed(p)'
          BY <1>0, <3>3, <5>3 DEF Needed
        <5> QED BY <3>2, <5>4
      <4> QED BY <4>1
    <3>5. p < Started
      BY <3>3, <3>4
    <3>6. ASSUME NEW j \in Cells, NotEmptied(BlockSize * p + j)' PROVE FALSE
      <4>1. BlockSize * p + j \in Nat /\ Pos(BlockSize * p + j) = p
        BY CellsOf DEF Begin
      <4>2. PICK i \in Nat : i = BlockSize * p + j
        BY <4>1
      <4>3. NotEmptied(i)'
        BY <3>6, <4>2
      <4>4. i < headIndex
        <5>1. Pos(i) < Pos(headIndex)
          BY <3>3, <3>4, <4>1, <4>2
        <5>2. headIndex <= i => Pos(headIndex) <= Pos(i)
          BY <3>3, PosMono
        <5>3. Pos(i) \in Int
          BY <4>1, <4>2
        <5> QED BY <3>3, <5>1, <5>2, <5>3
      <4>5. i \in 0 .. headIndex' /\ Pos(i)' <= p
        BY <1>0, <3>3, <4>1, <4>2, <4>4 DEF Pos
      <4>6. Needed(p)'
        BY <4>3, <4>5 DEF Needed
      <4> QED BY <3>2, <4>6
    <3>7. Emptied(p)' = Cells
      BY <3>6 DEF Emptied
    <3>8. emptyFlags'[At(p)] = Emptied(p)'
      BY <3>1, <3>5, EmptyFlagsOf
    <3> QED BY <3>1, <3>7, <3>8
  <2>2. CASE \A p \in 0 .. Latest : Live(p) => b # At(p)
    <3>1. emptyFlags[b] = Cells
      BY <2>2 DEF FlagsRight, IsEmpty
    <3>2. /\ pc[c] = "empty" /\ c \in Claimants
          /\ emptyFlags' = [emptyFlags EXCEPT ![found[c].block] =
                emptyFlags[found[c].block] \cup {Cell(i) : i \in found[c].index .. MovedTo(c) - 1}]
      BY SetEmptyDoes
    <3>3. found[c].block = At(Pos(found[c].index))
      BY <3>2, BasesAre DEF AtBase
    <3>4. Pos(found[c].index) \in 0 .. Latest /\ Live(Pos(found[c].index))
      BY <3>2, ClaimedPos DEF Live
    <3>5. found[c].block # b
      BY <2>2, <3>3, <3>4
    <3>6. b \in Blocks /\ emptyFlags \in [Blocks -> SUBSET Cells]
      BY DEF Own, TypeOK
    <3> QED BY <3>1, <3>2, <3>5, <3>6
  <2> QED BY <2>1, <2>2
<1>5. \A b \in Own' : (\A p \in 0 .. Latest' : Live(p)' => b # At(p)') => emptyFlags'[b] = Cells
  BY <1>1, <1>4
<1> QED BY <1>3, <1>5 DEF FlagsRight, IsEmpty

LEMMA ConsumerRing ==
  ASSUME TypeOK, TicketInv, ClaimRight, BatchRight, BasesRight, RingRight, FlagsRight,
         NEW c \in Consumers, Consumer(c)
  PROVE  RingRight' /\ FlagsRight'
<1>0. UNCHANGED <<tailIndex, circle, index, places, producer>>
  BY ProducerStays
<1>1. CASE SetEmpty(c)
  BY <1>0, <1>1, EmptyNeeds, RingShrinks, EmptyFlagsStep
<1>2. CASE Claim(c)
  <2>1. /\ \A p \in Int : Needed(p)' <=> Needed(p)
        /\ \A p \in Int : Emptied(p)' = Emptied(p)
    BY <1>2, ClaimNeeds
  <2>2. emptyFlags' = emptyFlags
    BY <1>2, ClaimsAt DEF contents
  <2> QED BY <1>0, <2>1, <2>2, RingShrinks, FlagsFrame
<1>3. CASE Early(c) \/ LooksUp(c) \/ MoveElements(c)
  <2>1. /\ headIndex' = headIndex /\ Claimants' = Claimants /\ emptyFlags' = emptyFlags
        /\ \A d \in Claimants : ClaimedTo(d)' = ClaimedTo(d) /\ found'[d].index = found[d].index
    <3>1. CASE Early(c)
      BY <3>1, EarlyDoes DEF contents
    <3>2. CASE LooksUp(c)
      <4>1. /\ headIndex' = headIndex /\ Claimants' = Claimants /\ UNCHANGED contents
            /\ found'[c].index = found[c].index
            /\ \A d \in Consumers : ClaimedTo(d)' = ClaimedTo(d)
                                    /\ (d # c => found'[d] = found[d])
        BY <3>2, LookupDoes
      <4>2. Claimants \subseteq Consumers
        BY DEF Claimants
      <4> QED BY <4>1, <4>2 DEF contents
    <3>3. CASE MoveElements(c)
      <4>1. /\ headIndex' = headIndex /\ Claimants' = Claimants /\ emptyFlags' = emptyFlags
            /\ found'[c].index = found[c].index
            /\ \A d \in Consumers : ClaimedTo(d)' = ClaimedTo(d)
                                    /\ (d # c => found'[d] = found[d])
        BY <3>3, MoveDoes
      <4>2. Claimants \subseteq Consumers
        BY DEF Claimants
      <4> QED BY <4>1, <4>2
    <3> QED BY <1>3, <3>1, <3>2, <3>3
  <2>2. /\ \A p : Needed(p)' <=> Needed(p)
        /\ \A p : Emptied(p)' = Emptied(p)
    BY <2>1, ClaimsKept
  <2> QED BY <1>0, <2>1, <2>2, RingShrinks, FlagsFrame
<1> QED BY <1>1, <1>2, <1>3 DEF Consumer, Early, LooksUp

-----------------------------------------------------------------------------
(* The ring of the blocks in use: steps of the producer *)

LEMMA ProducerLive ==
  ASSUME TypeOK, TicketInv, BatchRight, CircleRight, Producer
  PROVE  /\ \A p : Needed(p)' <=> Needed(p)
         /\ \A p : Emptied(p)' = Emptied(p)
         /\ \A p : Live(p)' <=> p \in 0 .. Latest' /\ Needed(p)
<1>1. UNCHANGED <<headIndex, consumer>>
  BY ProducerMoves
<1>2. /\ \A p : Needed(p)' <=> Needed(p)
      /\ \A p : Emptied(p)' = Emptied(p)
  BY <1>1, ConsumersSame
<1> QED BY <1>2 DEF Live

\* The block ahead that is used again is in use no more.
LEMMA ReusedIsFree ==
  ASSUME TypeOK, TicketInv, BatchRight, CircleRight, RingRight, FlagsRight,
         ReuseBlock, NEW p \in Nat, Live(p)
  PROVE  At(p) # next[tailBlock]
<1>0. /\ ppc = "ahead" /\ tailBlock \in Own /\ next[tailBlock] # batch.first
      /\ IsEmpty(next[tailBlock])
  BY ReuseDoes
<1>1. /\ Started \in Nat /\ Latest \in Int /\ batch.blocks \in Nat
      /\ Latest = Started - 1 + batch.blocks /\ headIndex \in Nat
      /\ \A q \in Int : q >= Started => Needed(q)
      /\ p \in 0 .. Latest /\ Needed(p)
  BY Where DEF Live
<1>2. SUFFICES ASSUME At(p) = next[tailBlock] PROVE FALSE
  OBVIOUS
<1>3. Live(Latest) /\ Latest \in 0 .. Latest
  BY <1>1, LiveUp
<1>4. tailBlock = At(Latest)
  BY <1>3 DEF RingRight
<1>5. ASSUME NEW q \in 0 .. Latest - 1, Live(q), p = q + 1 PROVE FALSE
  <2>1. next[At(q)] = At(p)
    BY <1>5 DEF RingRight
  <2>2. q \in 0 .. Latest /\ At(q) \in Own
    BY <1>1, <1>5 DEF RingRight
  <2>3. At(q) = At(Latest)
    BY <1>0, <1>2, <1>4, <2>1, <2>2 DEF CircleRight
  <2>4. q = Latest
    BY <1>3, <1>5, <2>2, <2>3 DEF RingRight
  <2> QED BY <1>1, <1>5, <2>4
<1>6. CASE p < Started
  <2>1. emptyFlags[At(p)] = Emptied(p)
    BY <1>1, <1>6 DEF FlagsRight
  <2>2. Emptied(p) = Cells
    BY <1>0, <1>2, <2>1 DEF IsEmpty
  <2>3. PICK i \in Nat : NotEmptied(i) /\ Pos(i) <= p
    BY <1>1 DEF Needed
  <2>4. Pos(i) # p
    <3>1. ASSUME Pos(i) = p PROVE FALSE
      <4>1. Cell(i) \in Cells /\ i = BlockSize * p + Cell(i)
        BY <3>1, Index DEF Begin
      <4>2. Cell(i) \notin Emptied(p)
        BY <2>3, <4>1 DEF Emptied
      <4> QED BY <2>2, <4>1, <4>2
    <3> QED BY <3>1
  <2>5. Pos(i) \in Nat
    BY PosOfNat
  <2>6. PICK q \in Nat : q = p - 1 /\ Pos(i) <= q
    BY <2>3, <2>4, <2>5
  <2>7. Needed(q)
    BY <1>1, <2>3, <2>6, NeededIs
  <2>8. q \in 0 .. Latest - 1 /\ Live(q) /\ p = q + 1
    BY <1>1, <2>6, <2>7 DEF Live
  <2> QED BY <1>5, <2>8
<1>7. CASE p = Started
  <2>1. batch.blocks > 0
    BY <1>1, <1>7
  <2>2. batch.first = At(p)
    BY <1>7, <2>1 DEF RingRight
  <2> QED BY <1>0, <1>2, <2>2
<1>8. CASE p > Started
  <2>1. PICK q \in Nat : q = p - 1 /\ q >= Started
    BY <1>1, <1>8
  <2>2. Needed(q)
    BY <1>1, <2>1
  <2>3. q \in 0 .. Latest - 1 /\ Live(q) /\ p = q + 1
    BY <1>1, <2>1, <2>2 DEF Live
  <2> QED BY <1>5, <2>3
<1> QED BY <1>1, <1>6, <1>7, <1>8

\* The new block comes after those in use.
LEMMA NewInRing ==
  ASSUME TypeOK, TicketInv, BatchRight, CircleRight, RingRight, FlagsRight,
         NEW b \in Blocks, Gets(b), ReuseBlock \/ Takes(b), ReuseBlock => b = next[tailBlock]
  PROVE  /\ b \in Own' /\ Own \subseteq Own' /\ Own' \subseteq Own \cup {b}
         /\ \A p \in Nat : Live(p) => At(p) # b
         /\ \A p \in 0 .. Latest - 1 : Live(p) => next'[At(p)] = next[At(p)]
         /\ Live(Latest) => next'[At(Latest)] = b
         /\ emptyFlags'[b] = Cells
         /\ \A d \in Blocks : d # b => emptyFlags'[d] = emptyFlags[d]
<1>0. tailBlock' = b /\ \A p \in Nat : Live(p) => p \in 0 .. Latest
  BY GetsDoes DEF Live
<1>1. Live(Latest) => tailBlock = At(Latest)
  BY DEF RingRight
<1>2. CASE ReuseBlock
  <2>1. /\ next[tailBlock] \in Own /\ IsEmpty(next[tailBlock]) /\ b = next[tailBlock]
        /\ UNCHANGED <<counters, next, contents, index, places, consumer>>
    BY <1>2, ReuseDoes
  <2>2. Own' = Own /\ next' = next /\ emptyFlags' = emptyFlags
    BY <2>1 DEF places, contents, Own
  <2>3. emptyFlags'[b] = Cells
    BY <2>1, <2>2 DEF IsEmpty
  <2>4. \A p \in Nat : Live(p) => At(p) # b
    BY <1>2, <2>1, ReusedIsFree
  <2> QED BY <1>1, <2>1, <2>2, <2>3, <2>4
<1>3. CASE Takes(b)
  <2>1. /\ b \in pool /\ pool' = pool \ {b} /\ other' = other /\ next' = Linked(b)
        /\ emptyFlags' = [emptyFlags EXCEPT ![b] = Cells] /\ batch'.start = batch.start
    BY <1>3, GetsDoes DEF Takes
  <2>2. Own' = Own \cup {b} /\ b \notin Own
    BY <1>0, <2>1, CircleGrows
  <2>3. \A p \in Nat : Live(p) => At(p) \in Own
    BY <1>0 DEF RingRight
  <2>4. \A p \in Nat : Live(p) => At(p) # b
    BY <2>2, <2>3
  <2>5. ASSUME NEW p \in 0 .. Latest - 1, Live(p) PROVE next'[At(p)] = next[At(p)]
    <3>1. Latest \in Int /\ p \in 0 .. Latest /\ Latest \in 0 .. Latest
      BY Where
    <3>2. Live(Latest)
      BY <2>5, <3>1, LiveUp
    <3>3. At(p) # At(Latest) /\ At(p) \in Own /\ At(Latest) \in Own
      BY <2>5, <3>1, <3>2 DEF RingRight
    <3>4. At(p) # tailBlock /\ tailBlock # Null /\ At(p) \in Blocks /\ At(p) # b
      BY <1>1, <2>2, <3>2, <3>3, PointerAssumption DEF Own
    <3> QED BY <2>1, <3>4 DEF Linked, TypeOK
  <2>6. ASSUME Live(Latest) PROVE next'[At(Latest)] = b
    <3>1. At(Latest) \in Own /\ tailBlock = At(Latest)
      BY <1>1, <2>6 DEF RingRight, Live
    <3>2. tailBlock \in Blocks /\ tailBlock # Null
      BY <3>1, PointerAssumption DEF Own
    <3> QED BY <2>1, <3>1, <3>2 DEF Linked, TypeOK
  <2>7. emptyFlags'[b] = Cells /\ \A d \in Blocks : d # b => emptyFlags'[d] = emptyFlags[d]
    BY <2>1 DEF TypeOK
  <2> QED BY <2>2, <2>4, <2>5, <2>6, <2>7
<1> QED BY <1>2, <1>3

LEMMA GetsRing ==
  ASSUME TypeOK, TicketInv, BatchRight, CircleRight, SlotsRight, RingRight, FlagsRight, Producer,
         NEW b \in Blocks, Gets(b), ReuseBlock \/ Takes(b), ReuseBlock => b = next[tailBlock]
  PROVE  RingRight' /\ FlagsRight'
<1>0. /\ Started \in Nat /\ Latest \in Int /\ batch.blocks \in Nat
      /\ Latest = Started - 1 + batch.blocks /\ Started - 1 <= Latest
  BY Where
<1>1. /\ Started' = Started /\ Latest' = Latest + 1 /\ ppc' = "base" /\ tailBlock' = b
      /\ batch'.start = batch.start /\ batch'.blocks = batch.blocks + 1
      /\ batch'.first = IF batch.first = Null THEN b ELSE batch.first
      /\ ppc \in {"ahead", "requisition"} /\ base' = base
  BY GetsDoes
<1>2. /\ b \in Own' /\ Own \subseteq Own' /\ Own' \subseteq Own \cup {b}
      /\ \A p \in Nat : Live(p) => At(p) # b
      /\ \A p \in 0 .. Latest - 1 : Live(p) => next'[At(p)] = next[At(p)]
      /\ Live(Latest) => next'[At(Latest)] = b
      /\ emptyFlags'[b] = Cells
      /\ \A d \in Blocks : d # b => emptyFlags'[d] = emptyFlags[d]
  BY NewInRing
<1>3. PICK l \in Int, s \in Nat : l = Latest /\ s = Started /\ s - 1 <= l
  BY <1>0
<1>4. /\ \A p \in 0 .. l : Live(p)' <=> Live(p)
      /\ \A p \in 0 .. l : Live(p) => At(p)' = At(p)
      /\ \A p \in 0 .. l + 1 : p \notin 0 .. l => p = l + 1 /\ At(p)' = b
      /\ \A p : Live(p)' => p \in 0 .. l + 1
      /\ \A p : Live(p) => p \in 0 .. l /\ p \in Nat
  <2>1. \A p : Live(p)' <=> p \in 0 .. Latest' /\ Needed(p)
    BY ProducerLive
  <2>2. \A p \in 0 .. l : p \in Nat /\ p \in 0 .. Latest' /\ p <= Latest'
    BY <1>1, <1>3
  <2>3. \A p \in 0 .. l : Live(p)' <=> Live(p)
    BY <1>3, <2>1, <2>2 DEF Live
  <2>4. \A p \in 0 .. l : Live(p) => At(p)' = At(p)
    BY <2>2, ProducerAt
  <2>5. At(l + 1)' = b
    BY <1>1, <1>3 DEF At
  <2>6. \A p \in 0 .. l + 1 : p \notin 0 .. l => p = l + 1
    BY <1>3
  <2>7. \A p : Live(p)' => p \in 0 .. l + 1
    BY <1>1, <1>3, <2>1
  <2>8. \A p : Live(p) => p \in 0 .. l /\ p \in Nat
    BY <1>3 DEF Live
  <2> QED BY <2>3, <2>4, <2>5, <2>6, <2>7, <2>8
<1>5. \A p \in 0 .. l + 1 : Live(p)' => At(p)' \in Own'
  <2>1. \A p \in 0 .. l : Live(p) => At(p) \in Own
    BY <1>3 DEF RingRight
  <2> QED BY <1>2, <1>4, <2>1
<1>6. ASSUME NEW p \in 0 .. l + 1, NEW q \in 0 .. l + 1, Live(p)', Live(q)', At(p)' = At(q)'
      PROVE  p = q
  <2>1. \A x, y \in 0 .. l : Live(x) /\ Live(y) /\ At(x) = At(y) => x = y
    BY <1>3 DEF RingRight
  <2>2. CASE p \in 0 .. l /\ q \in 0 .. l
    BY <1>4, <1>6, <2>1, <2>2
  <2>3. CASE p \notin 0 .. l /\ q \notin 0 .. l
    BY <1>4, <2>3
  <2>4. CASE p \in 0 .. l /\ q \notin 0 .. l
    <3>1. Live(p) /\ At(p)' = At(p) /\ At(q)' = b /\ p \in Nat
      BY <1>4, <1>6, <2>4
    <3> QED BY <1>2, <1>6, <3>1
  <2>5. CASE p \notin 0 .. l /\ q \in 0 .. l
    <3>1. Live(q) /\ At(q)' = At(q) /\ At(p)' = b /\ q \in Nat
      BY <1>4, <1>6, <2>5
    <3> QED BY <1>2, <1>6, <3>1
  <2> QED BY <2>2, <2>3, <2>4, <2>5
<1>7. ASSUME NEW p \in 0 .. l, Live(p)' PROVE next'[At(p)'] = At(p + 1)'
  <2>1. Live(p) /\ At(p)' = At(p)
    BY <1>4, <1>7
  <2>2. CASE p = l
    <3>1. next'[At(p)] = b
      BY <1>2, <1>3, <2>1, <2>2
    <3>2. At(p + 1)' = b
      <4>1. p + 1 \in 0 .. l + 1 /\ p + 1 \notin 0 .. l
        BY <1>3, <2>2
      <4>2. PICK q : q = p + 1
        OBVIOUS
      <4>3. At(q)' = b
        BY <1>4, <4>1, <4>2
      <4>4. At(p + 1)' = At(q)'
        BY <4>2 DEF At
      <4> QED BY <4>3, <4>4
    <3> QED BY <2>1, <3>1, <3>2
  <2>3. CASE p # l
    <3>1. p \in 0 .. l - 1
      BY <2>3
    <3>2. next'[At(p)] = next[At(p)] /\ next[At(p)] = At(p + 1)
      BY <1>2, <1>3, <2>1, <3>1 DEF RingRight
    <3>3. PICK q \in 0 .. l : q = p + 1
      BY <3>1
    <3>4. Live(q)
      BY <1>3, <2>1, <3>3, LiveUp
    <3>5. At(q)' = At(q)
      BY <1>4, <3>4
    <3>6. At(p + 1)' = At(q)'
      BY <3>3 DEF At
    <3> QED BY <2>1, <3>2, <3>3, <3>5, <3>6
  <2> QED BY <2>2, <2>3
<1>8. tailBlock' = At(Latest)' /\ tailBlock' # Null
  <2>1. At(Latest)' = b
    BY <1>1 DEF At
  <2> QED BY <1>1, <2>1, PointerAssumption
<1>9. Live(Started - 1)' => batch'.start = At(Started - 1)'
  <2>1. PICK q \in Int : q = Started - 1
    BY <1>0
  <2>2. Live(Started - 1)' <=> Live(q)'
    BY <1>1, <2>1 DEF Live, Needed
  <2>3. At(Started - 1)' = At(q)'
    BY <1>1, <2>1 DEF At
  <2>4. ASSUME Live(q)' PROVE batch'.start = At(q)'
    <3>1. q \in 0 .. l
      <4>1. q \in 0 .. l + 1 /\ q <= l
        BY <1>3, <1>4, <2>1, <2>4
      <4> QED BY <4>1
    <3>2. Live(q) /\ At(q)' = At(q)
      BY <1>4, <2>4, <3>1
    <3>3. batch.start = At(q)
      BY <1>1, <2>1, <3>2 DEF RingRight, InBatch
    <3> QED BY <1>1, <3>2, <3>3
  <2> QED BY <2>2, <2>3, <2>4
<1>10. batch'.first = At(Started)'
  <2>1. At(Started)' = At(s)'
    BY <1>1, <1>3 DEF At
  <2>2. CASE batch.blocks = 0
    <3>1. batch.first = Null /\ s = l + 1
      BY <1>0, <1>3, <2>2 DEF BatchRight
    <3>2. s \in 0 .. l + 1 /\ s \notin 0 .. l
      BY <1>3, <3>1
    <3> QED BY <1>1, <1>4, <2>1, <3>1, <3>2
  <2>3. CASE batch.blocks # 0
    <3>1. batch.first # Null /\ batch.blocks > 0
      BY <1>0, <2>3 DEF BatchRight
    <3>2. Live(Started) /\ batch.first = At(Started)
      BY <3>1, FirstIsOwn
    <3>3. At(s)' = At(s)
      BY <1>3, <1>4, <3>2
    <3> QED BY <1>1, <1>3, <2>1, <3>1, <3>2, <3>3
  <2> QED BY <1>0, <2>2, <2>3
<1>11. ASSUME NEW p \in 0 .. l + 1, Live(p)'
       PROVE  p = l + 1 \/ base[p % IndexSize] = BlockSize * p
  <2>1. p # l + 1 => p \in 0 .. l
    BY <1>3
  <2>2. p # l + 1 => Live(p)
    BY <1>4, <1>11, <2>1
  <2>3. ppc # "base"
    BY <1>1
  <2> QED BY <1>3, <2>1, <2>2, <2>3 DEF RingRight
<1>12. RingRight'
  <2>1. Latest' = l + 1 /\ Latest' - 1 = l
    BY <1>1, <1>3
  <2> QED BY <1>1, <1>5, <1>6, <1>7, <1>8, <1>9, <1>10, <1>11, <2>1 DEF RingRight
<1>13. ASSUME NEW p \in 0 .. l + 1, Live(p)'
       PROVE  emptyFlags'[At(p)'] = IF p < s THEN Emptied(p)' ELSE Cells
  <2>1. CASE p \in 0 .. l
    <3>1. Live(p) /\ At(p)' = At(p) /\ At(p) # b
      BY <1>2, <1>4, <1>13, <2>1
    <3>2. At(p) \in Blocks
      BY <1>3, <2>1, <3>1 DEF RingRight, Own
    <3>3. emptyFlags'[At(p)'] = emptyFlags[At(p)]
      BY <1>2, <3>1, <3>2
    <3>4. emptyFlags[At(p)] = IF p < s THEN Emptied(p) ELSE Cells
      BY <1>1, <1>3, <2>1, <3>1 DEF FlagsRight
    <3>5. Emptied(p)' = Emptied(p)
      BY ProducerLive
    <3> QED BY <3>3, <3>4, <3>5
  <2>2. CASE p \notin 0 .. l
    <3>1. p = l + 1 /\ At(p)' = b
      BY <1>4, <2>2
    <3>2. ~(p < s)
      BY <1>3, <3>1
    <3> QED BY <1>2, <3>1, <3>2
  <2> QED BY <2>1, <2>2
<1>14. ASSUME NEW d \in Own', \A p \in 0 .. l + 1 : Live(p)' => d # At(p)'
       PROVE  emptyFlags'[d] = Cells
  <2>1. CASE d = b
    BY <1>2, <2>1
  <2>2. CASE d # b
    <3>1. d \in Own /\ d \in Blocks
      BY <1>2, <2>2 DEF Own
    <3>2. ASSUME NEW p \in 0 .. l, Live(p) PROVE d # At(p)
      <4>1. Live(p)' /\ At(p)' = At(p) /\ p \in 0 .. l + 1
        BY <1>3, <1>4, <3>2
      <4> QED BY <1>14, <4>1
    <3>3. emptyFlags[d] = Cells
      BY <1>3, <3>1, <3>2 DEF FlagsRight, IsEmpty
    <3> QED BY <1>2, <2>2, <3>1, <3>3
  <2> QED BY <2>1, <2>2
<1>15. FlagsRight'
  <2>1. Latest' = l + 1 /\ ppc' \notin {"write", "commit"} /\ Started' = s
    BY <1>1, <1>3
  <2> QED BY <1>13, <1>14, <2>1 DEF FlagsRight, IsEmpty
<1> QED BY <1>12, <1>15

LEMMA FailsRing ==
  ASSUME TypeOK, TicketInv, BatchRight, CircleRight, SlotsRight, RingRight, FlagsRight, Producer,
         Fails
  PROVE  RingRight' /\ FlagsRight'
<1>0. /\ Started \in Nat /\ Latest \in Int /\ Started - 1 <= Latest
  BY Where
<1>1. /\ Started' = Started /\ Latest' = Started - 1 /\ ppc \in {"room", "requisition"}
      /\ ppc' = "idle" /\ batch'.blocks = 0
      /\ tailBlock' = IF batch.start = Null THEN batch.first ELSE batch.start
      /\ next' = next /\ emptyFlags' = emptyFlags /\ base' = base /\ Own' = Own
  BY FailsDoes DEF contents, entries, places, Own
<1>2. PICK l \in Int, s \in Nat : l = Latest /\ s = Started /\ s - 1 <= l
  BY <1>0
<1>3. /\ \A p \in 0 .. s - 1 : p \in 0 .. l /\ p < s
      /\ \A p \in 0 .. s - 1 : Live(p)' <=> Live(p)
      /\ \A p \in 0 .. s - 1 : Live(p) => At(p)' = At(p)
      /\ \A p : Live(p)' => p \in 0 .. s - 1
  <2>1. \A p : Live(p)' <=> p \in 0 .. Latest' /\ Needed(p)
    BY ProducerLive
  <2>2. \A p \in 0 .. s - 1 : p \in 0 .. l /\ p < s /\ p \in Nat /\ p <= Latest'
    BY <1>1, <1>2
  <2>3. \A p \in 0 .. s - 1 : Live(p)' <=> Live(p)
    BY <1>1, <1>2, <2>1, <2>2 DEF Live
  <2>4. \A p \in 0 .. s - 1 : Live(p) => At(p)' = At(p)
    BY <2>2, ProducerAt
  <2>5. \A p : Live(p)' => p \in 0 .. s - 1
    BY <1>1, <1>2, <2>1
  <2> QED BY <2>2, <2>3, <2>4, <2>5
<1>4. \A p \in 0 .. s - 1 : Live(p)' => At(p)' \in Own
  <2>1. \A p \in 0 .. l : Live(p) => At(p) \in Own
    BY <1>2 DEF RingRight
  <2> QED BY <1>3, <2>1
<1>5. \A p, q \in 0 .. s - 1 : Live(p)' /\ Live(q)' /\ At(p)' = At(q)' => p = q
  <2>1. \A p, q \in 0 .. l : Live(p) /\ Live(q) /\ At(p) = At(q) => p = q
    BY <1>2 DEF RingRight
  <2> QED BY <1>3, <2>1
<1>6. ASSUME NEW p \in 0 .. (s - 1) - 1, Live(p)' PROVE next[At(p)'] = At(p + 1)'
  <2>1. p \in 0 .. s - 1 /\ p \in 0 .. l - 1
    BY <1>2
  <2>2. Live(p) /\ At(p)' = At(p) /\ next[At(p)] = At(p + 1)
    BY <1>2, <1>3, <1>6, <2>1 DEF RingRight
  <2>3. PICK q \in 0 .. s - 1 : q = p + 1
    BY <2>1
  <2>4. Live(q)
    BY <1>2, <1>3, <2>2, <2>3, LiveUp
  <2>5. At(q)' = At(q) /\ At(p + 1)' = At(q)'
    BY <1>3, <2>3, <2>4 DEF At
  <2> QED BY <2>2, <2>3, <2>5
<1>7. ASSUME Live(Latest)' PROVE tailBlock' = At(Latest)'
  <2>1. PICK q \in Int : q = s - 1
    BY <1>2
  <2>2. Live(Latest)' <=> Live(q)'
    BY <1>1, <1>2, <2>1 DEF Live, Needed
  <2>3. At(Latest)' = At(q)'
    BY <1>1, <1>2, <2>1 DEF At
  <2>4. q \in 0 .. s - 1 /\ Live(q) /\ At(q)' = At(q)
    BY <1>3, <1>7, <2>2
  <2>5. batch.start = At(q) /\ At(q) \in Own
    BY <1>1, <1>2, <1>3, <2>1, <2>4 DEF RingRight, InBatch
  <2>6. At(q) # Null
    BY <2>5, PointerAssumption DEF Own
  <2> QED BY <1>1, <2>3, <2>4, <2>5, <2>6
<1>8. tailBlock' = Null => s - 1 = -1
  BY <1>1, <1>2 DEF BatchRight, InBatch
<1>9. \A p \in 0 .. s - 1 : Live(p)' => base[p % IndexSize] = BlockSize * p
  BY <1>1, <1>2, <1>3 DEF RingRight
<1>10. RingRight'
  <2>1. PICK m \in Int : m = s - 1
    BY <1>2
  <2>2. Latest' = m
    BY <1>1, <1>2, <2>1
  <2>3. ~InBatch' /\ ~(batch'.blocks > 0)
    BY <1>1 DEF InBatch
  <2>4. \A p \in 0 .. m - 1 : Live(p)' => next'[At(p)'] = At(p + 1)'
    BY <1>1, <1>6, <2>1
  <2>5. \A p \in 0 .. m : Live(p)' => base'[p % IndexSize] = BlockSize * p
    BY <1>1, <1>9, <2>1
  <2>6. \A p \in 0 .. m : Live(p)' => At(p)' \in Own'
    BY <1>1, <1>4, <2>1
  <2>7. \A p, q \in 0 .. m : Live(p)' /\ Live(q)' /\ At(p)' = At(q)' => p = q
    BY <1>5, <2>1
  <2>8. tailBlock' = Null => m = -1
    BY <1>8, <2>1
  <2> QED BY <1>7, <2>2, <2>3, <2>4, <2>5, <2>6, <2>7, <2>8 DEF RingRight
<1>11. ASSUME NEW p \in 0 .. s - 1, Live(p)'
       PROVE  emptyFlags[At(p)'] = Emptied(p)'
  <2>1. Live(p) /\ At(p)' = At(p) /\ p \in 0 .. l /\ p < s
    BY <1>3, <1>11
  <2>2. emptyFlags[At(p)] = Emptied(p)
    BY <1>2, <2>1 DEF FlagsRight
  <2> QED BY <2>1, <2>2, ProducerLive
<1>12. ASSUME NEW d \in Own, \A p \in 0 .. s - 1 : Live(p)' => d # At(p)'
       PROVE  emptyFlags[d] = Cells
  <2>1. CASE \E p \in 0 .. l : Live(p) /\ d = At(p)
    <3>1. PICK p \in 0 .. l : Live(p) /\ d = At(p)
      BY <2>1
    <3>2. ~(p < s)
      <4>1. ASSUME p < s PROVE FALSE
        <5>1. p \in 0 .. s - 1
          BY <4>1
        <5> QED BY <1>3, <1>12, <3>1, <5>1
      <4> QED BY <4>1
    <3> QED BY <1>1, <1>2, <3>1, <3>2 DEF FlagsRight
  <2>2. CASE \A p \in 0 .. l : Live(p) => d # At(p)
    BY <1>2, <2>2 DEF FlagsRight, IsEmpty
  <2> QED BY <2>1, <2>2
<1>13. FlagsRight'
  <2>1. Latest' = s - 1 /\ Started' = s
    BY <1>1, <1>2
  <2>2. \A p \in 0 .. s - 1 : p < s
    BY <1>3
  <2> QED BY <1>1, <1>11, <1>12, <2>1, <2>2 DEF FlagsRight, IsEmpty
<1> QED BY <1>10, <1>13

\* A step that obtains no block and gives none up.
LEMMA SameLive ==
  ASSUME TypeOK, TicketInv, BatchRight, CircleRight, SlotsRight, RingRight, Producer,
         Latest' = Latest
  PROVE  /\ \A p : Live(p)' <=> Live(p)
         /\ \A p \in 0 .. Latest : Live(p) => At(p)' = At(p)
<1>1. \A p : Live(p)' <=> Live(p)
  BY ProducerLive DEF Live
<1>2. \A p \in 0 .. Latest : p \in Nat /\ p <= Latest'
  BY Where
<1> QED BY <1>1, <1>2, ProducerAt

\* The parts of RingRight that say where the blocks are.
LEMMA RingKept ==
  ASSUME TypeOK, TicketInv, BatchRight, CircleRight, SlotsRight, RingRight, Producer,
         Latest' = Latest, Own' = Own, next' = next, tailBlock' = tailBlock
  PROVE  /\ \A p \in 0 .. Latest' : Live(p)' => At(p)' \in Own'
         /\ \A p, q \in 0 .. Latest' : Live(p)' /\ Live(q)' /\ At(p)' = At(q)' => p = q
         /\ \A p \in 0 .. Latest' - 1 : Live(p)' => next'[At(p)'] = At(p + 1)'
         /\ Live(Latest)' => tailBlock' = At(Latest)'
         /\ tailBlock' = Null => Latest' = -1
<1>1. PICK l \in Int : l = Latest
  BY Where
<1>2. /\ \A p : Live(p)' <=> Live(p)
      /\ \A p \in 0 .. l : Live(p) => At(p)' = At(p)
  BY <1>1, SameLive
<1>3. /\ \A p \in 0 .. l : Live(p) => At(p) \in Own
      /\ \A p, q \in 0 .. l : Live(p) /\ Live(q) /\ At(p) = At(q) => p = q
      /\ \A p \in 0 .. l - 1 : Live(p) => next[At(p)] = At(p + 1)
  BY <1>1 DEF RingRight
<1>4. \A p \in 0 .. l : Live(p)' => At(p)' \in Own
  BY <1>2, <1>3
<1>5. \A p, q \in 0 .. l : Live(p)' /\ Live(q)' /\ At(p)' = At(q)' => p = q
  BY <1>2, <1>3
<1>6. ASSUME NEW p \in 0 .. l - 1, Live(p)' PROVE next[At(p)'] = At(p + 1)'
  <2>1. p \in 0 .. l /\ Live(p)
    BY <1>2, <1>6
  <2>2. At(p)' = At(p) /\ next[At(p)] = At(p + 1)
    BY <1>2, <1>3, <2>1
  <2>3. PICK q \in 0 .. l : q = p + 1
    BY <2>1
  <2>4. Live(q)
    BY <1>1, <2>1, <2>3, LiveUp
  <2>5. At(q)' = At(q) /\ At(p + 1)' = At(q)'
    BY <1>2, <2>3, <2>4 DEF At
  <2> QED BY <2>2, <2>3, <2>5
<1>7. Live(Latest)' => tailBlock = At(Latest)'
  <2>1. Live(Latest)' <=> Live(l)'
    BY <1>1 DEF Live, Needed
  <2>2. At(Latest)' = At(l)'
    BY <1>1 DEF At
  <2>3. Live(l) => l \in 0 .. l /\ tailBlock = At(l)
    BY <1>1 DEF RingRight, Live
  <2>4. Live(l) => At(l)' = At(l)
    BY <1>2, <2>3
  <2> QED BY <1>2, <2>1, <2>2, <2>3, <2>4
<1>8. tailBlock = Null => l = -1
  BY <1>1 DEF RingRight
<1>9. Latest' = l
  BY <1>1
<1> QED BY <1>4, <1>5, <1>6, <1>7, <1>8, <1>9

LEMMA CommitRing ==
  ASSUME TypeOK, TicketInv, BatchRight, CircleRight, SlotsRight, RingRight, FlagsRight, Producer,
         Commit
  PROVE  RingRight' /\ FlagsRight'
<1>1. /\ Started' = Latest + 1 /\ Latest' = Latest /\ Latest \in Nat
      /\ batch'.blocks = 0 /\ ppc = "commit" /\ ppc' = "idle"
      /\ next' = next /\ tailBlock' = tailBlock /\ Own' = Own /\ base' = base
      /\ emptyFlags' = emptyFlags
  BY CommitDoes DEF circle, contents, index, entries, places, Own
<1>2. /\ \A p : Live(p)' <=> Live(p)
      /\ \A p \in 0 .. Latest : Live(p) => At(p)' = At(p)
  BY <1>1, SameLive
<1>3. RingRight'
  <2>1. \A p \in 0 .. Latest : Live(p)' => base[p % IndexSize] = BlockSize * p
    BY <1>1, <1>2 DEF RingRight
  <2> QED BY <1>1, <2>1, RingKept DEF RingRight, InBatch
<1>4. FlagsRight'
  <2>1. \A p \in 0 .. Latest : p < Started'
    BY <1>1
  <2>2. \A p \in 0 .. Latest : Live(p)' => emptyFlags[At(p)'] = Emptied(p)'
    BY <1>1, <1>2, ProducerLive DEF FlagsRight
  <2>3. \A d \in Own : (\A p \in 0 .. Latest : Live(p)' => d # At(p)') => emptyFlags[d] = Cells
    BY <1>2 DEF FlagsRight, IsEmpty
  <2> QED BY <1>1, <2>1, <2>2, <2>3 DEF FlagsRight, IsEmpty
<1> QED BY <1>3, <1>4

LEMMA StaysRing ==
  ASSUME TypeOK, TicketInv, BatchRight, CircleRight, SlotsRight, RingRight, Producer, Stays
  PROVE  RingRight'
<1>0. /\ Started \in Nat /\ Latest \in Int /\ Started - 1 <= Latest /\ tailIndex \in Nat
      /\ Latest = Started - 1 + batch.blocks /\ batch.blocks \in Nat
  BY Where
<1>1. /\ Started' = Started /\ Latest' = Latest
      /\ UNCHANGED <<headIndex, tailBlock, next, pool, other, consumer>>
      /\ batch' = batch \/ \E n \in PutSizes : EnqueueStart(n)
      /\ ppc' # "base" /\ ppc' # "destroyed" /\ ppc # "destroyed"
      /\ StoreBase \/ base' = base
  BY StaysDoes
<1>2. /\ \A p : Live(p)' <=> Live(p)
      /\ \A p \in 0 .. Latest : Live(p) => At(p)' = At(p)
  BY <1>1, SameLive
<1>3. Own' = Own
  BY <1>1 DEF Own
<1>4. \A p \in 0 .. Latest : Live(p)' => base'[p % IndexSize] = BlockSize * p
  <2>1. CASE StoreBase
    <3>1. /\ ppc = "base" /\ base' = [base EXCEPT ![nextFront] = BlockStart(batch.blocks)]
          /\ base \in [Entries -> Nat] /\ nextFront \in Entries
      BY <2>1 DEF StoreBase, TypeOK
    <3>2. nextFront = Latest % IndexSize /\ BlockStart(batch.blocks) = BlockSize * Latest
      BY <1>0, <3>1, BlockStartIs DEF SlotsRight, Begin
    <3>3. ASSUME NEW p \in 0 .. Latest, Live(p)
          PROVE  base'[p % IndexSize] = BlockSize * p
      <4>1. CASE p = Latest
        BY <3>1, <3>2, <4>1
      <4>2. CASE p # Latest
        <5>1. p < Latest /\ Latest - p < IndexSize /\ p \in Int
          BY <1>0, <3>3, <4>2, LivesFit
        <5>2. p % IndexSize # nextFront /\ p % IndexSize \in Entries
          BY <1>0, <3>2, <5>1, EntriesDiffer, EntryIs
        <5>3. base[p % IndexSize] = BlockSize * p
          BY <3>3, <4>2 DEF RingRight
        <5> QED BY <3>1, <5>2, <5>3
      <4> QED BY <4>1, <4>2
    <3> QED BY <1>2, <3>3
  <2>2. CASE ~StoreBase
    <3>1. base' = base /\ ppc # "base"
      BY <1>1, <2>2 DEF Stays, EnqueueStart, NeedBlock, GoesOn, StoreBlock, StoreFront,
         WriteElements
    <3> QED BY <1>2, <3>1 DEF RingRight
  <2> QED BY <2>1, <2>2
<1>5. PICK s \in Nat, q \in Int : s = Started /\ q = s - 1
  BY <1>0
<1>6. At(Started - 1)' = At(q)' /\ At(Started)' = At(s)' /\ (Live(Started - 1)' <=> Live(q)')
  BY <1>1, <1>5 DEF At, Live, Needed
<1>7. Live(q) => q \in 0 .. Latest
  BY DEF Live
<1>8. CASE \E n \in PutSizes : EnqueueStart(n)
  <2>1. PICK n \in PutSizes : EnqueueStart(n)
    BY <1>8
  <2>2. n \in Nat
    BY SizeAssumption
  <2>3. batch'.start = tailBlock /\ batch'.blocks = 0 /\ ppc = "idle"
    BY <2>1, <2>2, StartDoes
  <2>4. Latest = Started - 1
    BY <2>3, IdleBatch DEF InBatch
  <2>5. Live(q)' => batch'.start = At(q)'
    <3>1. Live(q) => tailBlock = At(q)
      BY <1>5, <2>4 DEF RingRight
    <3> QED BY <1>2, <1>7, <2>3, <3>1
  <2> QED BY <1>1, <1>3, <1>4, <1>6, <2>3, <2>5, RingKept DEF RingRight
<1>9. CASE batch' = batch
  <2>1. InBatch' => InBatch \/ \E n \in PutSizes : EnqueueStart(n)
    BY <1>1 DEF InBatch, Stays, NeedBlock, GoesOn, StoreBase, StoreBlock, StoreFront, WriteElements
  <2>2. CASE \E n \in PutSizes : EnqueueStart(n)
    BY <1>8, <2>2
  <2>3. CASE ~\E n \in PutSizes : EnqueueStart(n)
    <3>1. InBatch' /\ Live(q)' => batch'.start = At(q)'
      <4>1. InBatch /\ Live(q) => batch.start = At(q)
        BY <1>5 DEF RingRight
      <4> QED BY <1>2, <1>7, <1>9, <2>1, <2>3, <4>1
    <3>2. batch'.blocks > 0 => batch'.first = At(s)'
      <4>1. ASSUME batch.blocks > 0 PROVE batch.first = At(s)'
        <5>1. Live(Started) /\ batch.first = At(Started)
          BY <4>1, FirstIsOwn
        <5>2. s \in 0 .. Latest
          BY <1>0, <1>5, <4>1
        <5>3. At(s)' = At(s)
          BY <1>2, <1>5, <5>1, <5>2
        <5> QED BY <1>5, <5>1, <5>3
      <4> QED BY <1>9, <4>1
    <3> QED BY <1>1, <1>3, <1>4, <1>6, <3>1, <3>2, RingKept DEF RingRight
  <2> QED BY <2>2, <2>3
<1> QED BY <1>1, <1>8, <1>9

-----------------------------------------------------------------------------
(* The blocks of a call, in the order they were obtained *)

\* The natural numbers are well ordered.
LEMMA NatIsWellFounded == IsWellFoundedOn({p1 \in Nat \X Nat : p1[1] < p1[2]}, Nat)
  BY NatLessThanWellFounded, Zenon DEF OpToRel

LEMMA LeastElement ==
  ASSUME NEW T \in SUBSET Nat, T # {}
  PROVE  \E n \in T : \A m \in T : n <= m
<1>1. PICK n \in T : \A m \in T : <<m, n>> \notin {p1 \in Nat \X Nat : p1[1] < p1[2]}
  BY NatIsWellFounded, WFMin, Zenon
<1>2. ASSUME NEW m \in T PROVE n <= m
  <2>1. <<m, n>> \notin {p1 \in Nat \X Nat : p1[1] < p1[2]}
    BY <1>1
  <2>2. m \in Nat /\ n \in Nat
    OBVIOUS
  <2> QED BY <2>1, <2>2
<1> QED BY <1>2

\* g follows the links of n from its second value on.
Follows(g, a, b, n, m) ==
    g = [k \in 0 .. m |-> CASE k = 0 -> a [] k = 1 -> b [] OTHER -> n[g[k - 1]]]

LEMMA FollowerExists ==
  ASSUME NEW a, NEW b, NEW n, NEW max \in Nat
  PROVE  \E g : Follows(g, a, b, n, max)
<1> DEFINE Bad == {m \in Nat : ~\E g : Follows(g, a, b, n, m)}
<1>1. \E g : Follows(g, a, b, n, 0)
  <2> DEFINE g == [k \in 0 .. 0 |-> a]
  <2>1. \A k \in 0 .. 0 : k = 0
    OBVIOUS
  <2>2. g = [k \in 0 .. 0 |-> CASE k = 0 -> a [] k = 1 -> b [] OTHER -> n[g[k - 1]]]
    BY <2>1
  <2> QED BY <2>2 DEF Follows
<1>2. ASSUME NEW m \in Nat, NEW g, Follows(g, a, b, n, m)
      PROVE  \E h : Follows(h, a, b, n, m + 1)
  <2> DEFINE h == [k \in 0 .. m + 1 |->
                     IF k \in 0 .. m THEN g[k] ELSE IF m = 0 THEN b ELSE n[g[m]]]
             F(k) == CASE k = 0 -> a [] k = 1 -> b [] OTHER -> n[h[k - 1]]
  <2>1. \A k \in 0 .. m : h[k] = g[k]
    OBVIOUS
  <2>2. h[m + 1] = IF m = 0 THEN b ELSE n[g[m]]
    <3>1. m + 1 \in 0 .. m + 1 /\ m + 1 \notin 0 .. m
      OBVIOUS
    <3> QED BY <3>1
  <2>3. \A k \in 0 .. m : g[k] = CASE k = 0 -> a [] k = 1 -> b [] OTHER -> n[g[k - 1]]
    BY <1>2 DEF Follows
  <2>4. DOMAIN h = 0 .. m + 1 /\ h = [k \in 0 .. m + 1 |-> h[k]]
    OBVIOUS
  <2> HIDE DEF h
  <2>5. ASSUME NEW k \in 0 .. m + 1 PROVE h[k] = F(k)
    <3>1. CASE k \in 0 .. m
      <4>1. k # 0 => k - 1 \in 0 .. m
        BY <3>1
      <4>2. k # 0 => h[k - 1] = g[k - 1]
        BY <2>1, <4>1
      <4>3. h[k] = g[k]
        BY <2>1, <3>1
      <4>4. CASE k = 0
        BY <2>3, <3>1, <4>3, <4>4
      <4>5. CASE k = 1
        BY <2>3, <3>1, <4>3, <4>5
      <4>6. CASE k # 0 /\ k # 1
        <5>1. g[k] = n[g[k - 1]]
          BY <2>3, <3>1, <4>6
        <5>2. F(k) = n[h[k - 1]]
          BY <4>6
        <5> QED BY <4>2, <4>3, <4>6, <5>1, <5>2
      <4> QED BY <4>4, <4>5, <4>6
    <3>2. CASE k = m + 1
      <4>1. k # 0 /\ (k = 1 <=> m = 0) /\ k - 1 = m /\ m \in 0 .. m
        BY <3>2
      <4>2. h[k - 1] = g[m]
        BY <2>1, <4>1
      <4>3. h[k] = IF m = 0 THEN b ELSE n[g[m]]
        BY <2>2, <3>2
      <4>4. CASE m = 0
        <5>1. F(k) = b
          BY <4>1, <4>4
        <5> QED BY <4>3, <4>4, <5>1
      <4>5. CASE m # 0
        <5>1. F(k) = n[h[k - 1]]
          BY <4>1, <4>5
        <5> QED BY <4>2, <4>3, <4>5, <5>1
      <4> QED BY <4>4, <4>5
    <3> QED BY <3>1, <3>2
  <2>6. h = [k \in 0 .. m + 1 |-> F(k)]
    BY <2>4, <2>5
  <2> QED BY <2>6 DEF Follows
<1>3. SUFFICES ASSUME Bad # {} PROVE FALSE
  OBVIOUS
<1>4. PICK m \in Bad : \A k \in Bad : m <= k
  <2>1. Bad \in SUBSET Nat
    OBVIOUS
  <2> QED BY <1>3, <2>1, LeastElement
<1>5. m # 0
  BY <1>1, <1>4
<1>6. PICK k \in Nat : m = k + 1
  BY <1>4, <1>5
<1>7. k \notin Bad
  BY <1>4, <1>6
<1>8. PICK g : Follows(g, a, b, n, k)
  BY <1>7
<1>9. \E h : Follows(h, a, b, n, k + 1)
  BY <1>2, <1>8
<1> QED BY <1>4, <1>6, <1>9

LEMMA ChainFollows ==
  /\ Cardinality(Blocks) \in Nat
  /\ Follows(Chain, batch.start, batch.first, next, Cardinality(Blocks))
<1>1. Cardinality(Blocks) \in Nat
  BY IndexAssumption, FS_CardinalityType
<1>2. \E g : Follows(g, batch.start, batch.first, next, Cardinality(Blocks))
  BY <1>1, FollowerExists
<1>3. Chain = CHOOSE g : Follows(g, batch.start, batch.first, next, Cardinality(Blocks))
  BY DEF Chain, Follows
<1> QED BY <1>1, <1>2, <1>3

LEMMA ChainAt ==
  ASSUME TypeOK, TicketInv, RingRight
  PROVE  /\ batch.blocks <= Cardinality(Blocks)
         /\ \A k \in 1 .. batch.blocks : Chain[k] = At(Started - 1 + k)
         /\ Chain[0] = batch.start
<1>0. /\ Started \in Nat /\ Latest \in Int /\ batch.blocks \in Nat
      /\ Latest = Started - 1 + batch.blocks /\ Cardinality(Blocks) \in Nat
      /\ \A q \in Int : q >= Started => Needed(q)
  BY Where, ChainFollows
<1>1. batch.blocks <= Cardinality(Blocks)
  <2>1. CASE batch.blocks = 0
    BY <1>0, <2>1
  <2>2. CASE batch.blocks > 0
    <3>1. Live(Started)
      BY <2>2, FirstIsOwn
    <3>2. Latest - Started + 1 <= Cardinality(Own) /\ Cardinality(Own) \in Nat
      BY <1>0, <3>1, LivesFit, OwnIsFinite
    <3>3. Cardinality(Own) <= Cardinality(Blocks)
      <4>1. Own \in SUBSET Blocks
        BY DEF Own
      <4> QED BY <4>1, IndexAssumption, FS_Subset
    <3> QED BY <1>0, <3>2, <3>3
  <2> QED BY <1>0, <2>1, <2>2
<1>2. PICK card \in Nat, m \in Nat : card = Cardinality(Blocks) /\ m = batch.blocks /\ m <= card
  BY <1>0, <1>1
<1>3. Chain = [k \in 0 .. card |-> CASE k = 0 -> batch.start [] k = 1 -> batch.first
                                     [] OTHER -> next[Chain[k - 1]]]
  BY <1>2, ChainFollows DEF Follows
<1>4. Chain[0] = batch.start
  <2>1. 0 \in 0 .. card
    BY <1>2
  <2> QED BY <1>3, <2>1
<1> DEFINE Bad == {k \in 1 .. m : Chain[k] # At(Started - 1 + k)}
<1>5. ASSUME Bad # {} PROVE FALSE
  <2>1. PICK k \in Bad : \A j \in Bad : k <= j
    <3>1. Bad \in SUBSET Nat
      OBVIOUS
    <3> QED BY <1>5, <3>1, LeastElement
  <2>2. k \in 1 .. m /\ k \in 0 .. card
    BY <1>2, <2>1
  <2>3. CASE k = 1
    <3>1. Chain[k] = batch.first
      BY <1>3, <2>2, <2>3
    <3>2. Started - 1 + k = Started /\ batch.blocks > 0
      BY <1>0, <1>2, <2>2, <2>3
    <3>3. batch.first = At(Started)
      BY <3>2 DEF RingRight
    <3> QED BY <2>1, <3>1, <3>2, <3>3
  <2>4. CASE k # 1
    <3>1. k # 0 /\ k - 1 \in 1 .. m /\ k - 1 \notin Bad
      BY <2>1, <2>2, <2>4
    <3>2. Chain[k] = next[Chain[k - 1]]
      BY <1>3, <2>2, <2>4, <3>1
    <3>3. Chain[k - 1] = At(Started - 1 + (k - 1))
      BY <3>1
    <3>4. PICK q \in Int : q = Started - 1 + (k - 1) /\ q + 1 = Started - 1 + k
                           /\ q >= Started /\ q < Latest
      BY <1>0, <1>2, <2>2, <3>1
    <3>5. q \in 0 .. Latest - 1 /\ Live(q)
      BY <1>0, <3>4 DEF Live
    <3>6. next[At(q)] = At(q + 1)
      BY <3>5 DEF RingRight
    <3> QED BY <2>1, <3>2, <3>3, <3>4, <3>6
  <2> QED BY <2>3, <2>4
<1>6. \A k \in 1 .. m : Chain[k] = At(Started - 1 + k)
  BY <1>5
<1> QED BY <1>1, <1>2, <1>4, <1>6

LEMMA ChainBlocksAre ==
  ASSUME TypeOK, TicketInv, RingRight
  PROVE  ChainBlocks = {At(p) : p \in Started .. Latest}
<1>0. /\ Started \in Nat /\ Latest \in Int /\ batch.blocks \in Nat
      /\ Latest = Started - 1 + batch.blocks
  BY Where
<1>1. ASSUME NEW k \in 1 .. batch.blocks PROVE Chain[k] \in {At(p) : p \in Started .. Latest}
  <2>1. PICK p \in Started .. Latest : p = Started - 1 + k
    BY <1>0
  <2> QED BY <2>1, ChainAt
<1>2. ASSUME NEW p \in Started .. Latest PROVE \E k \in 1 .. batch.blocks : Chain[k] = At(p)
  <2>1. PICK k \in 1 .. batch.blocks : k = p - Started + 1 /\ Started - 1 + k = p
    BY <1>0
  <2> QED BY <2>1, ChainAt
<1> QED BY <1>1, <1>2 DEF ChainBlocks

\* A block that has no elements yet has no emptied cells.
LEMMA NoneEmptied ==
  ASSUME TypeOK, TicketInv, NEW p \in Int, p >= Started
  PROVE  Emptied(p) = {}
<1>0. /\ Started \in Nat /\ headIndex \in Nat /\ tailIndex \in Nat /\ headIndex <= tailIndex
      /\ tailIndex <= Begin(Started) /\ Begin(Started) \in Int /\ Begin(p) \in Int
  BY Where, Begins
<1>1. Begin(Started) <= Begin(p)
  <2>1. CASE p = Started
    BY <1>0, <2>1
  <2>2. CASE p > Started
    <3>1. Begin(Started) + BlockSize <= Begin(p) /\ BlockSize \in Nat
      BY <1>0, <2>2, BeginsGrow, SizeAssumption
    <3> QED BY <1>0, <3>1
  <2> QED BY <1>0, <2>1, <2>2
<1>2. ASSUME NEW j \in Cells PROVE NotEmptied(BlockSize * p + j)
  <2>1. j \in Int /\ j >= 0
    BY SizeAssumption DEF Cells
  <2>2. Begin(p) + j >= headIndex
    BY <1>0, <1>1, <2>1
  <2> QED BY <2>2 DEF NotEmptied, Begin
<1> QED BY <1>2 DEF Emptied

LEMMA FrontFlags ==
  ASSUME TypeOK, TicketInv, BatchRight, CircleRight, SlotsRight, RingRight, FlagsRight, Producer,
         StoreFront
  PROVE  FlagsRight'
<1>0. /\ Started \in Nat /\ Latest \in Int /\ Started - 1 <= Latest
      /\ \A p \in Int : p >= Started => Needed(p)
  BY Where
<1>1. /\ ppc = "front" /\ ppc' = "write" /\ Own' = Own
      /\ emptyFlags' = [b \in Blocks |-> IF b \in ChainBlocks THEN {} ELSE emptyFlags[b]]
  BY DEF StoreFront, places, Own
<1>2. Started' = Started /\ Latest' = Latest
  BY StaysDoes DEF Stays
<1>3. PICK l \in Int, s \in Nat : l = Latest /\ s = Started /\ s - 1 <= l
  BY <1>0
<1>4. /\ \A p : Live(p)' <=> Live(p)
      /\ \A p \in 0 .. l : Live(p) => At(p)' = At(p)
      /\ \A p : Emptied(p)' = Emptied(p)
  BY <1>2, <1>3, SameLive, ProducerLive
<1>5. /\ \A p \in 0 .. l : Live(p) => At(p) \in Own
      /\ \A p, q \in 0 .. l : Live(p) /\ Live(q) /\ At(p) = At(q) => p = q
  BY <1>3 DEF RingRight
<1>6. ChainBlocks = {At(p) : p \in s .. l} /\ \A p \in s .. l : p \in 0 .. l /\ Live(p)
  <2>1. \A p \in s .. l : p \in 0 .. l /\ Live(p)
    BY <1>0, <1>3 DEF Live
  <2> QED BY <1>3, <2>1, ChainBlocksAre
<1>7. ASSUME NEW p \in 0 .. l, Live(p)
      PROVE  emptyFlags'[At(p)] = Emptied(p)
  <2>1. At(p) \in Blocks
    BY <1>5, <1>7 DEF Own
  <2>2. CASE p < s
    <3>1. At(p) \notin ChainBlocks
      <4>1. ASSUME NEW q \in s .. l, At(p) = At(q) PROVE FALSE
        <5>1. p = q
          BY <1>5, <1>6, <1>7, <4>1
        <5> QED BY <2>2, <5>1
      <4> QED BY <1>6, <4>1
    <3>2. emptyFlags[At(p)] = Emptied(p)
      BY <1>3, <1>7, <2>2 DEF FlagsRight
    <3> QED BY <1>1, <2>1, <3>1, <3>2
  <2>3. CASE p >= s
    <3>1. p \in s .. l
      BY <2>3
    <3>2. At(p) \in ChainBlocks
      BY <1>6, <3>1
    <3>3. Emptied(p) = {}
      BY <1>3, <2>3, NoneEmptied
    <3> QED BY <1>1, <2>1, <3>2, <3>3
  <2> QED BY <1>3, <2>2, <2>3
<1>8. ASSUME NEW d \in Own, \A p \in 0 .. l : Live(p) => d # At(p)
      PROVE  emptyFlags'[d] = Cells
  <2>1. d \notin ChainBlocks
    BY <1>6, <1>8
  <2>2. emptyFlags[d] = Cells
    BY <1>3, <1>8 DEF FlagsRight, IsEmpty
  <2> QED BY <1>1, <2>1, <2>2 DEF Own
<1>9. Latest' = l
  BY <1>2, <1>3
<1>10. \A p \in 0 .. l : Live(p)' => emptyFlags'[At(p)'] = Emptied(p)'
  BY <1>4, <1>7
<1>11. \A d \in Own : (\A p \in 0 .. l : Live(p)' => d # At(p)') => emptyFlags'[d] = Cells
  BY <1>4, <1>8
<1> QED BY <1>1, <1>9, <1>10, <1>11 DEF FlagsRight, IsEmpty

LEMMA StaysFlags ==
  ASSUME TypeOK, TicketInv, BatchRight, CircleRight, SlotsRight, RingRight, FlagsRight, Producer,
         Stays
  PROVE  FlagsRight'
<1>0. Started \in Nat /\ Latest \in Int
  BY Where
<1>1. /\ Started' = Started /\ Latest' = Latest
      /\ UNCHANGED <<pool, other>>
  BY StaysDoes
<1>2. PICK l \in Int, s \in Nat : l = Latest /\ s = Started
  BY <1>0
<1>3. /\ \A p : Live(p)' <=> Live(p)
      /\ \A p \in 0 .. l : Live(p) => At(p)' = At(p)
      /\ \A p : Emptied(p)' = Emptied(p)
  BY <1>1, <1>2, SameLive, ProducerLive
<1>4. Own' = Own /\ Latest' = l /\ Started' = s
  BY <1>1, <1>2 DEF Own
<1>5. CASE ~StoreFront
  <2>1. emptyFlags' = emptyFlags
    BY <1>5 DEF Stays, EnqueueStart, NeedBlock, GoesOn, StoreBase, StoreBlock, WriteElements,
                contents
  <2>2. \A p \in 0 .. l : p < s \/ ppc' \in {"write", "commit"} <=> p < s \/ ppc \in {"write", "commit"}
    <3>1. CASE ppc = "idle"
      <4>1. l = s - 1
        BY <1>2, <3>1, IdleBatch DEF InBatch
      <4> QED BY <4>1
    <3>2. CASE ppc # "idle"
      <4>1. ppc' \in {"write", "commit"} <=> ppc \in {"write", "commit"}
        BY <1>5, <3>2 DEF Stays, EnqueueStart, NeedBlock, GoesOn, StoreBase, StoreBlock,
           WriteElements
      <4> QED BY <4>1
    <3> QED BY <3>1, <3>2
  <2>3. \A p \in 0 .. l : Live(p) =>
           emptyFlags[At(p)] = IF p < s \/ ppc \in {"write", "commit"} THEN Emptied(p) ELSE Cells
    BY <1>2 DEF FlagsRight
  <2>4. \A p \in 0 .. l : Live(p)' =>
           emptyFlags[At(p)'] = IF p < s \/ ppc' \in {"write", "commit"} THEN Emptied(p)' ELSE Cells
    BY <1>3, <2>2, <2>3
  <2>5. \A d \in Own : (\A p \in 0 .. l : Live(p)' => d # At(p)') => emptyFlags[d] = Cells
    BY <1>2, <1>3 DEF FlagsRight, IsEmpty
  <2> QED BY <1>4, <2>1, <2>4, <2>5 DEF FlagsRight, IsEmpty
<1> QED BY <1>5, FrontFlags

LEMMA ProducerRing ==
  ASSUME TypeOK, TicketInv, BatchRight, CircleRight, SlotsRight, RingRight, FlagsRight, Producer
  PROVE  RingRight' /\ FlagsRight'
<1>1. CASE \E b \in Blocks : Gets(b) /\ (ReuseBlock \/ Takes(b)) /\ (ReuseBlock => b = next[tailBlock])
  BY <1>1, GetsRing
<1>2. CASE Stays
  BY <1>2, StaysRing, StaysFlags
<1> QED BY <1>1, <1>2, FailsRing, CommitRing, ProducerMoves

LEMMA StepRing ==
  ASSUME TypeOK, TicketInv, LayoutInv, Next, ppc' # "destroyed"
  PROVE  RingRight' /\ FlagsRight'
<1>0. /\ ppc # "destroyed" /\ ~Destroy
      /\ ClaimRight /\ BatchRight /\ CircleRight /\ SlotsRight /\ BasesRight /\ RingRight
      /\ FlagsRight
  BY NotDestroyed, LayoutParts
<1>1. CASE Producer
  BY <1>0, <1>1, ProducerRing
<1>2. ASSUME NEW c \in Consumers, Consumer(c) PROVE RingRight' /\ FlagsRight'
  BY <1>0, <1>2, ConsumerRing
<1>3. CASE Others
  <2>1. /\ Started' = Started /\ Latest' = Latest /\ Own' = Own
        /\ ppc' = ppc /\ batch' = batch /\ tailBlock' = tailBlock /\ next' = next
        /\ base' = base /\ emptyFlags' = emptyFlags
        /\ \A p : At(p)' = At(p)
    BY <1>3, OthersSame
  <2>2. /\ \A p : Needed(p)' <=> Needed(p)
        /\ \A p : Emptied(p)' = Emptied(p)
    <3>1. UNCHANGED <<headIndex, consumer>>
      BY <1>3, OthersSame
    <3> QED BY <3>1, ConsumersSame
  <2>3. \A p : Live(p)' <=> Live(p)
    BY <2>1, <2>2 DEF Live
  <2>4. PICK l, s : l = Latest /\ s = Started
    OBVIOUS
  <2>5. Live(Latest)' <=> Live(Latest)
    BY <2>1, <2>2 DEF Live, Needed
  <2>6. At(Latest)' = At(Latest)
    BY <2>1, <2>4 DEF At
  <2>7. Live(Started - 1)' <=> Live(Started - 1)
    BY <2>1, <2>2 DEF Live, Needed
  <2>8. At(Started - 1)' = At(Started - 1) /\ At(Started)' = At(Started)
    BY <2>1 DEF At
  <2>9. RingRight'
    BY <1>0, <2>1, <2>3, <2>5, <2>6, <2>7, <2>8 DEF RingRight, InBatch
  <2>10. FlagsRight'
    BY <1>0, <2>1, <2>2, <2>3 DEF FlagsRight, IsEmpty
  <2> QED BY <2>9, <2>10
<1> QED BY <1>0, <1>1, <1>2, <1>3, NextCases

-----------------------------------------------------------------------------
(* Types *)

BlockTypes ==
    /\ tailBlock \in Blocks \cup {Null}
    /\ next \in [Blocks -> Blocks \cup {Null}]
    /\ elements \in [Blocks -> [Cells -> Nat]]
    /\ emptyFlags \in [Blocks -> SUBSET Cells]
    /\ pool \subseteq Blocks /\ other \subseteq Blocks
IndexTypes ==
    /\ base \in [Entries -> Nat] /\ block \in [Entries -> Blocks \cup {Null}]
    /\ front \in Entries \cup {-1} /\ nextFront \in Entries
    /\ slotsUsed \in 0 .. IndexSize
BatchTyped ==
    /\ ppc \in {"idle", "ahead", "room", "requisition", "base", "entry", "front",
                "write", "commit", "destroyed"}
    /\ batch \in AllBatches
FoundTyped == found \in [Consumers -> AllFounds]

LEMMA TypeParts ==
  TypeOK <=> CounterTypes /\ BlockTypes /\ IndexTypes /\ BatchTyped /\ FoundTyped
BY DEF TypeOK, CounterTypes, BlockTypes, IndexTypes, BatchTyped, FoundTyped, AllBatches,
       AllFounds, AllTickets, Places

LEMMA LeastIs ==
  ASSUME NEW T \in SUBSET Nat, T # {}
  PROVE  Min(T) \in T /\ \A m \in T : Min(T) <= m
<1>1. \E n \in T : \A m \in T : n <= m
  BY LeastElement
<1> QED BY <1>1 DEF Min

LEMMA WriteTypes ==
  ASSUME TypeOK, WriteElements
  PROVE  elements' \in [Blocks -> [Cells -> Nat]]
<1> DEFINE new == tailIndex .. tailIndex + batch.count - 1
           blockOf(i) == Chain[(Base(i) - BlockStart(0)) \div BlockSize]
           here(b, j) == {i \in new : blockOf(i) = b /\ Cell(i) = j}
<1>1. elements' = [b \in Blocks |-> [j \in Cells |->
                     IF here(b, j) = {} THEN elements[b][j] ELSE Min(here(b, j)) + 1]]
  BY DEF WriteElements
<1>2. tailIndex \in Nat /\ batch.count \in Nat /\ elements \in [Blocks -> [Cells -> Nat]]
  BY BatchTypes DEF TypeOK
<1>3. ASSUME NEW b \in Blocks, NEW j \in Cells
      PROVE  (IF here(b, j) = {} THEN elements[b][j] ELSE Min(here(b, j)) + 1) \in Nat
  <2>1. CASE here(b, j) = {}
    BY <1>2, <2>1
  <2>2. CASE here(b, j) # {}
    <3>1. here(b, j) \in SUBSET Nat
      BY <1>2
    <3> HIDE DEF here
    <3>2. Min(here(b, j)) \in Nat
      BY <2>2, <3>1, LeastIs
    <3> QED BY <2>2, <3>2
  <2> QED BY <2>1, <2>2
<1> HIDE DEF here
<1> QED BY <1>1, <1>3

LEMMA ProducerTypes ==
  ASSUME TypeOK, TicketInv, LayoutInv, Producer
  PROVE  BlockTypes' /\ IndexTypes' /\ BatchTyped' /\ FoundTyped'
<1>0. /\ CounterTypes /\ BlockTypes /\ IndexTypes /\ BatchTyped /\ FoundTyped
      /\ BatchRight /\ CircleRight /\ batch.start \in Blocks \cup {Null}
      /\ batch.first \in Blocks \cup {Null} /\ batch.front \in Entries
      /\ batch.slots \in 0 .. IndexSize
  BY TypeParts, LayoutParts, BatchTypes
<1>1. FoundTyped'
  BY <1>0, ConsumersStay DEF FoundTyped
<1>2. CASE \E n \in PutSizes : EnqueueStart(n)
  <2>1. PICK n \in PutSizes : EnqueueStart(n)
    BY <1>2
  <2>2. n \in Nat
    BY SizeAssumption
  <2>3. /\ batch' \in AllBatches /\ ppc' \in {"ahead", "write"}
        /\ UNCHANGED <<counters, circle, contents, index, places, consumer>>
    BY <2>1, <2>2, StartDoes
  <2>4. BlockTypes' /\ IndexTypes'
    BY <1>0, <2>3 DEF BlockTypes, IndexTypes, circle, contents, index, entries, places
  <2> QED BY <1>1, <2>3, <2>4 DEF BatchTyped
<1>3. CASE ReuseBlock
  <2>1. /\ next[tailBlock] \in Blocks /\ Obtain(next[tailBlock])
        /\ UNCHANGED <<counters, next, contents, index, places, consumer>>
    BY <1>0, <1>3, ReuseDoes
  <2>2. batch' \in AllBatches /\ tailBlock' = next[tailBlock] /\ ppc' = "base"
    BY <2>1, ObtainDoes
  <2>3. BlockTypes' /\ IndexTypes'
    BY <1>0, <2>1, <2>2 DEF BlockTypes, IndexTypes, contents, index, entries, places
  <2> QED BY <1>1, <2>2, <2>3 DEF BatchTyped
<1>4. CASE \E b \in pool : Takes(b)
  <2>1. PICK b \in pool : Takes(b)
    BY <1>4
  <2>2. /\ b \in Blocks /\ ppc = "requisition" /\ pool' = pool \ {b}
        /\ emptyFlags' = [emptyFlags EXCEPT ![b] = Cells]
        /\ next' = Linked(b) /\ Obtain(b) /\ slotsUsed' = slotsUsed + 1
        /\ UNCHANGED <<counters, elements, entries, front, nextFront, other, consumer>>
    BY <1>0, <2>1 DEF Takes, BlockTypes
  <2>3. batch' \in AllBatches /\ tailBlock' = b /\ ppc' = "base"
    BY <2>2, ObtainDoes
  <2>4. slotsUsed < IndexSize /\ IndexSize \in Nat
    BY <2>2, LayoutParts, SizeAssumption DEF SlotsRight
  <2>5. IndexTypes'
    BY <1>0, <2>2, <2>4 DEF IndexTypes, entries
  <2>6. next' \in [Blocks -> Blocks \cup {Null}]
    BY <1>0, <2>2 DEF Linked, BlockTypes
  <2>7. BlockTypes'
    BY <1>0, <2>2, <2>3, <2>6 DEF BlockTypes
  <2> QED BY <1>1, <2>3, <2>5, <2>7 DEF BatchTyped
<1>5. CASE NeedBlock \/ GoesOn
  <2>1. BlockTypes' /\ IndexTypes'
    BY <1>0, <1>5 DEF NeedBlock, GoesOn, BlockTypes, IndexTypes, circle, contents, index, entries,
       places
  <2>2. BatchTyped'
    BY <1>0, <1>5 DEF NeedBlock, GoesOn, BatchTyped
  <2> QED BY <1>1, <2>1, <2>2
<1>6. CASE Fails
  <2>1. /\ ppc' = "idle" /\ batch' = NoBatch /\ nextFront' = batch.front
        /\ slotsUsed' = batch.slots
        /\ tailBlock' = IF batch.start = Null THEN batch.first ELSE batch.start
        /\ UNCHANGED <<counters, next, contents, entries, front, places, consumer>>
    BY <1>6 DEF Fails, Undo
  <2>2. BlockTypes' /\ IndexTypes'
    BY <1>0, <2>1 DEF BlockTypes, IndexTypes, contents, entries, places
  <2> QED BY <1>1, <2>1, <2>2, NoBatchIs DEF BatchTyped
<1>7. CASE StoreBase
  <2>1. /\ ppc = "base" /\ ppc' = "entry" /\ batch' = batch
        /\ base' = [base EXCEPT ![nextFront] = BlockStart(batch.blocks)]
        /\ UNCHANGED <<counters, circle, contents, block, front, nextFront, slotsUsed, places>>
    BY <1>7 DEF StoreBase
  <2>2. BlockStart(batch.blocks) \in Nat
    <3>1. /\ batch.blocks \in Nat /\ batch.blocks > 0 /\ tailIndex \in Nat /\ Started \in Nat
          /\ Latest = Started - 1 + batch.blocks
      BY <1>0, <2>1, Where DEF BatchRight
    <3>2. BlockStart(batch.blocks) = Begin(Latest)
      BY <3>1, BlockStartIs
    <3>3. Latest \in Nat
      BY <3>1
    <3> QED BY <3>2, <3>3, Begins
  <2>3. BlockTypes'
    BY <1>0, <2>1 DEF BlockTypes, circle, contents, places
  <2>4. IndexTypes'
    BY <1>0, <2>1, <2>2 DEF IndexTypes
  <2> QED BY <1>0, <1>1, <2>1, <2>3, <2>4 DEF BatchTyped
<1>8. CASE StoreBlock
  <2>1. /\ ppc' \in {"ahead", "room", "front"} /\ batch' = batch
        /\ block' = [block EXCEPT ![nextFront] = tailBlock]
        /\ nextFront' = EntryAfter(nextFront)
        /\ UNCHANGED <<counters, circle, contents, base, front, slotsUsed, places>>
    BY <1>8 DEF StoreBlock
  <2>2. nextFront' \in Entries
    <3>1. nextFront + 1 \in Int
      BY <1>0 DEF IndexTypes, Entries
    <3> QED BY <2>1, <3>1, EntryIs DEF EntryAfter
  <2>3. BlockTypes'
    BY <1>0, <2>1 DEF BlockTypes, circle, contents, places
  <2>4. IndexTypes'
    BY <1>0, <2>1, <2>2 DEF IndexTypes, BlockTypes
  <2> QED BY <1>0, <1>1, <2>1, <2>3, <2>4 DEF BatchTyped
<1>9. CASE StoreFront
  <2>1. /\ ppc' = "write" /\ batch' = batch /\ front' = (nextFront - 1) % IndexSize
        /\ emptyFlags' = [b \in Blocks |-> IF b \in ChainBlocks THEN {} ELSE emptyFlags[b]]
        /\ UNCHANGED <<counters, circle, elements, entries, nextFront, slotsUsed, places>>
    BY <1>9 DEF StoreFront
  <2>2. front' \in Entries
    <3>1. nextFront - 1 \in Int
      BY <1>0 DEF IndexTypes, Entries
    <3> QED BY <2>1, <3>1, EntryIs
  <2>3. BlockTypes'
    BY <1>0, <2>1 DEF BlockTypes, circle, places
  <2>4. IndexTypes'
    BY <1>0, <2>1, <2>2 DEF IndexTypes, entries
  <2> QED BY <1>0, <1>1, <2>1, <2>3, <2>4 DEF BatchTyped
<1>10. CASE WriteElements
  <2>1. /\ ppc' = "commit" /\ batch' = batch
        /\ UNCHANGED <<counters, circle, emptyFlags, index, places>>
    BY <1>10 DEF WriteElements
  <2>2. BlockTypes' /\ IndexTypes'
    BY <1>0, <1>10, <2>1, WriteTypes DEF BlockTypes, IndexTypes, circle, index, entries, places
  <2> QED BY <1>0, <1>1, <2>1, <2>2 DEF BatchTyped
<1>11. CASE Commit
  <2>1. /\ ppc' = "idle" /\ batch' = NoBatch
        /\ UNCHANGED <<circle, contents, index, places>>
    BY <1>11 DEF Commit
  <2>2. BlockTypes' /\ IndexTypes'
    BY <1>0, <2>1 DEF BlockTypes, IndexTypes, circle, contents, index, entries, places
  <2> QED BY <1>1, <2>1, <2>2, NoBatchIs DEF BatchTyped
<1> QED BY <1>2, <1>3, <1>4, <1>5, <1>6, <1>7, <1>8, <1>9, <1>10, <1>11, ProducerCases

LEMMA ConsumerFound ==
  ASSUME TypeOK, TicketInv, LayoutInv, NEW c \in Consumers, Consumer(c)
  PROVE  FoundTyped' /\ elements' \in [Blocks -> [Cells -> Nat]]
         /\ emptyFlags' \in [Blocks -> SUBSET Cells]
<1>0. /\ ClaimRight /\ BatchRight /\ FoundTyped /\ BlockTypes
  BY TypeParts, LayoutParts
<1>1. /\ found[c] \in AllFounds /\ found[c].first \in Nat /\ found[c].index \in Nat
      /\ found[c].entry \in Entries /\ found[c].block \in Blocks \cup {Null}
      /\ found[c].out \in Seq(Nat)
  BY FoundTypes
<1>2. ppc # "destroyed"
  <2>1. ASSUME ppc = "destroyed" PROVE FALSE
    <3>1. pc[c] = "idle"
      BY <2>1, LayoutParts
    <3> QED BY <1>0, <2>1, <3>1 DEF Consumer, LoadTail, LoadOvercommit, CheckAvailable,
       TakeTickets, Recheck, GiveUp, Claim, LoadFront, LoadBase, LoadBlock, MoveElements,
       SetEmpty, Goto
  <2> QED BY <2>1
<1>3. SlotsRight /\ BasesRight
  BY <1>2, LayoutParts
<1>4. \A f : f \in AllFounds /\ found' = [found EXCEPT ![c] = f] => FoundTyped'
  BY <1>0 DEF FoundTyped
<1>5. CASE Early(c)
  BY <1>0, <1>5, EarlyDoes DEF FoundTyped, BlockTypes, contents
<1>6. CASE Claim(c)
  <2>1. found'[c] \in AllFounds /\ UNCHANGED contents
    BY <1>0, <1>6, ClaimsAt
  <2>2. found' = [found EXCEPT ![c] = found'[c]]
    BY <1>0, <1>6 DEF Claim, FoundTyped
  <2> QED BY <1>0, <1>4, <2>1, <2>2 DEF BlockTypes, contents
<1>7. CASE LooksUp(c)
  <2>1. found'[c].entry \in Entries /\ UNCHANGED contents
    BY <1>0, <1>3, <1>7, LookupBase, LookupDoes
  <2>2. CASE LoadFront(c)
    <3>1. found' = [found EXCEPT ![c] = [found[c] EXCEPT !.entry = front]]
      BY <2>2 DEF LoadFront
    <3>2. found'[c] = [found[c] EXCEPT !.entry = front]
      BY <1>0, <3>1 DEF FoundTyped
    <3>3. found'[c].entry = front
      BY <1>1, <3>2 DEF AllFounds
    <3>4. [found[c] EXCEPT !.entry = front] \in AllFounds
      BY <1>1, <2>1, <3>3 DEF AllFounds
    <3> QED BY <1>0, <1>4, <2>1, <3>1, <3>4 DEF BlockTypes, contents
  <2>3. CASE LoadBase(c)
    <3>1. PICK e : found' = [found EXCEPT ![c] = [found[c] EXCEPT !.entry = e]]
      BY <2>3 DEF LoadBase
    <3>2. found'[c] = [found[c] EXCEPT !.entry = e]
      BY <1>0, <3>1 DEF FoundTyped
    <3>3. found'[c].entry = e
      BY <1>1, <3>2 DEF AllFounds
    <3>4. [found[c] EXCEPT !.entry = e] \in AllFounds
      BY <1>1, <2>1, <3>3 DEF AllFounds
    <3> QED BY <1>0, <1>4, <2>1, <3>1, <3>4 DEF BlockTypes, contents
  <2>4. CASE LoadBlock(c)
    <3>1. found' = [found EXCEPT ![c] = [found[c] EXCEPT !.block = block[found[c].entry]]]
      BY <2>4 DEF LoadBlock
    <3>2. block[found[c].entry] \in Blocks \cup {Null}
      BY <1>1 DEF TypeOK
    <3>3. [found[c] EXCEPT !.block = block[found[c].entry]] \in AllFounds
      BY <1>1, <3>2 DEF AllFounds
    <3> QED BY <1>0, <1>4, <2>1, <3>1, <3>3 DEF BlockTypes, contents
  <2> QED BY <1>7, <2>2, <2>3, <2>4 DEF LooksUp
<1>8. CASE MoveElements(c)
  <2> DEFINE to == MoveEnd(c)
             new == [i \in Cells |->
                       IF Base(found[c].index) + i \in found[c].index .. to - 1
                       THEN NoMessage ELSE elements[found[c].block][i]]
  <2>1. found'[c].out \in Seq(Nat) /\ found[c].block \in Blocks
    BY <1>8, MovesRight
  <2>2. PICK o : found' = [found EXCEPT ![c] = [found[c] EXCEPT !.out = o]]
    BY <1>8 DEF MoveElements
  <2>3. found'[c] = [found[c] EXCEPT !.out = o]
    BY <1>0, <2>2 DEF FoundTyped
  <2>4. found'[c].out = o
    BY <1>1, <2>3 DEF AllFounds
  <2>5. [found[c] EXCEPT !.out = o] \in AllFounds
    BY <1>1, <2>1, <2>4 DEF AllFounds
  <2>6. elements' = [elements EXCEPT ![found[c].block] = new] /\ emptyFlags' = emptyFlags
    BY <1>8, MoveDoes DEF MoveEnd
  <2>7. elements[found[c].block] \in [Cells -> Nat]
    BY <1>0, <2>1 DEF BlockTypes
  <2>8. new \in [Cells -> Nat]
    BY <2>7 DEF NoMessage
  <2> HIDE DEF new
  <2>9. elements' \in [Blocks -> [Cells -> Nat]]
    BY <1>0, <2>6, <2>8 DEF BlockTypes
  <2> QED BY <1>0, <1>4, <2>2, <2>5, <2>6, <2>9 DEF BlockTypes
<1>9. CASE SetEmpty(c)
  <2>1. /\ elements' = elements
        /\ emptyFlags' = [emptyFlags EXCEPT ![found[c].block] =
              emptyFlags[found[c].block]
                 \cup {Cell(i) : i \in found[c].index .. MovedTo(c) - 1}]
    BY <1>9, SetEmptyDoes
  <2>2. \A i \in found[c].index .. MovedTo(c) - 1 : Cell(i) \in Cells
    <3>1. MovedTo(c) \in Nat
      BY FoundTypes
    <3> QED BY <1>1, <3>1, Index
  <2>3. {Cell(i) : i \in found[c].index .. MovedTo(c) - 1} \in SUBSET Cells
    BY <2>2
  <2>4. emptyFlags' \in [Blocks -> SUBSET Cells]
    BY <1>0, <2>1, <2>3 DEF BlockTypes
  <2>5. CASE MovedTo(c) = ClaimedTo(c)
    <3>1. found' = [found EXCEPT ![c] = NotFound]
      BY <1>9, <2>5 DEF SetEmpty, Return
    <3>2. NotFound \in AllFounds
      <4>1. 0 \in Entries
        BY SizeAssumption DEF Entries
      <4> QED BY <4>1 DEF NotFound, AllFounds
    <3> QED BY <1>0, <1>4, <2>1, <2>4, <3>1, <3>2 DEF BlockTypes
  <2>6. CASE MovedTo(c) # ClaimedTo(c)
    <3>1. found' = [found EXCEPT ![c] = [found[c] EXCEPT !.index = MovedTo(c),
                                               !.entry = EntryAfter(found[c].entry)]]
      BY <1>9, <2>6 DEF SetEmpty
    <3>2. EntryAfter(found[c].entry) \in Entries
      <4>1. found[c].entry + 1 \in Int
        BY <1>1 DEF Entries
      <4> QED BY <4>1, EntryIs DEF EntryAfter
    <3>3. MovedTo(c) \in Nat
      BY FoundTypes
    <3>4. [found[c] EXCEPT !.index = MovedTo(c), !.entry = EntryAfter(found[c].entry)]
             \in AllFounds
      BY <1>1, <3>2, <3>3 DEF AllFounds
    <3> QED BY <1>0, <1>4, <2>1, <2>4, <3>1, <3>4 DEF BlockTypes
  <2> QED BY <2>5, <2>6
<1> QED BY <1>5, <1>6, <1>7, <1>8, <1>9 DEF Consumer, Early, LooksUp

\* The step of the type invariant.
LEMMA StepTypes ==
  ASSUME TypeOK, TicketInv, LayoutInv, Next
  PROVE  TypeOK'
<1>0. CounterTypes' /\ BlockTypes /\ IndexTypes /\ BatchTyped /\ FoundTyped
  BY StepFields, TypeParts
<1>1. SUFFICES BlockTypes' /\ IndexTypes' /\ BatchTyped' /\ FoundTyped'
  <2>1. CounterTypes' /\ BlockTypes' /\ IndexTypes' /\ BatchTyped' /\ FoundTyped' => TypeOK'
    BY TypeParts, PTL
  <2> QED BY <1>0, <2>1
<1>2. CASE Producer
  BY <1>2, ProducerTypes
<1>3. CASE Others
  BY <1>0, <1>3 DEF Others, OtherTakes, OtherReturns, BlockTypes, IndexTypes, BatchTyped,
     FoundTyped, circle, contents, index, entries, producer, consumer
<1>4. CASE Destroy
  <2>1. /\ ppc' = "destroyed" /\ tailBlock' = Null /\ pool' = pool \cup Circle
        /\ UNCHANGED <<next, emptyFlags, index, other, batch, consumer>>
        /\ elements' = [b \in Blocks |-> [i \in Cells |->
              IF <<b, i>> \in Doomed THEN NoMessage ELSE elements[b][i]]]
    BY <1>4 DEF Destroy
  <2>2. Circle \subseteq Blocks
    BY DEF Circle
  <2>3. elements' \in [Blocks -> [Cells -> Nat]]
    BY <1>0, <2>1 DEF BlockTypes, NoMessage
  <2>4. BlockTypes'
    BY <1>0, <2>1, <2>2, <2>3 DEF BlockTypes
  <2> QED BY <1>0, <2>1, <2>4 DEF IndexTypes, BatchTyped, FoundTyped, index, entries, consumer
<1>5. ASSUME NEW c \in Consumers, Consumer(c)
      PROVE  BlockTypes' /\ IndexTypes' /\ BatchTyped' /\ FoundTyped'
  <2>1. UNCHANGED <<tailIndex, circle, index, places, producer>>
    BY <1>5, ProducerStays
  <2> QED BY <1>0, <1>5, <2>1, ConsumerFound DEF BlockTypes, IndexTypes, BatchTyped, circle,
     index, entries, places, producer
<1> QED BY <1>2, <1>3, <1>4, <1>5, NextCases

-----------------------------------------------------------------------------
(* What the cells contain *)

\* Where an element is: in a block in use.
IsIn(i) == i \in 0 .. tailIndex + batch.count /\ Pos(i) \in Nat /\ Live(Pos(i))
PresentIn == \A i \in Int : Present(i) => IsIn(i)
Placed == TypeOK /\ TicketInv /\ ClaimRight /\ BatchRight

LEMMA PresentIsLive ==
  ASSUME Placed
  PROVE  PresentIn
<1>0. /\ TypeOK /\ TicketInv /\ ClaimRight /\ BatchRight
      /\ Started \in Nat /\ Latest \in Int /\ Started - 1 <= Latest /\ tailIndex \in Nat
      /\ headIndex \in Nat /\ headIndex <= tailIndex /\ batch.count \in Nat
  BY Where, BatchTypes DEF Placed
<1>1. ASSUME NEW i \in Nat, i <= tailIndex + batch.count, Pos(i) <= Latest,
             i >= headIndex \/ NotEmptied(i)
      PROVE  IsIn(i)
  <2>1. Pos(i) \in Nat /\ NotEmptied(i)
    BY <1>1, PosOfNat DEF NotEmptied
  <2>2. Needed(Pos(i))
    BY <1>0, <2>1, NeededIs
  <2> QED BY <1>0, <1>1, <2>1, <2>2 DEF IsIn, Live
<1>2. ASSUME NEW i \in Int, i \in headIndex .. tailIndex - 1
      PROVE  IsIn(i)
  <2>1. i \in Nat /\ i < tailIndex /\ i <= tailIndex + batch.count /\ i >= headIndex
    BY <1>0, <1>2
  <2>2. Pos(i) <= Latest
    BY <1>0, <2>1, IndexBelow
  <2> QED BY <1>1, <2>1, <2>2
<1>3. ASSUME NEW i \in Int, ppc = "commit", i \in tailIndex .. tailIndex + batch.count - 1
      PROVE  IsIn(i)
  <2>1. /\ i \in Nat /\ i <= tailIndex + batch.count /\ i >= headIndex
        /\ tailIndex + batch.count - 1 \in Int /\ i <= tailIndex + batch.count - 1
    BY <1>0, <1>3
  <2>2. Pos(i) <= Latest
    BY <1>0, <1>3, <2>1, AllThere, PosMono
  <2> QED BY <1>1, <2>1, <2>2
<1>4. ASSUME NEW i \in Int, NEW c \in Claimants, i \in MovedTo(c) .. ClaimedTo(c) - 1
      PROVE  IsIn(i)
  <2>1. /\ found[c].index \in Nat /\ MovedTo(c) \in Nat /\ ClaimedTo(c) \in Nat
        /\ found[c].index < MoveEnd(c) /\ MoveEnd(c) \in Nat
        /\ ClaimedTo(c) <= headIndex
        /\ MovedTo(c) = IF pc[c] = "empty" THEN MoveEnd(c) ELSE found[c].index
    BY <1>0, ClaimFacts, FoundTypes, MoveEnds DEF MoveEnd
  <2>2. /\ i \in Nat /\ i < tailIndex /\ i <= tailIndex + batch.count
        /\ i \in found[c].index .. ClaimedTo(c) - 1
    BY <1>0, <1>4, <2>1
  <2>3. NotEmptied(i)
    BY <2>2 DEF NotEmptied
  <2>4. Pos(i) <= Latest
    BY <1>0, <2>2, IndexBelow
  <2> QED BY <1>1, <2>2, <2>3, <2>4
<1> QED BY <1>2, <1>3, <1>4 DEF PresentIn, Present

LEMMA StepPresentIn ==
  ASSUME TypeOK, TicketInv, LayoutInv, Next
  PROVE  PresentIn /\ PresentIn'
<1>1. Placed
  BY LayoutParts DEF Placed
<1>2. Placed'
  BY StepTypes, StepTickets, StepClaims, StepBatch DEF Placed
<1>3. Placed => PresentIn
  BY PresentIsLive
<1>4. Placed' => PresentIn'
  BY PresentIsLive, PTL
<1> QED BY <1>1, <1>2, <1>3, <1>4

LEMMA ContentsKept ==
  ASSUME ContentsRight, PresentIn, PresentIn', elements' = elements,
         \A i \in Int : Present(i)' <=> Present(i),
         \A i \in Int : Present(i) => At(Pos(i))' = At(Pos(i))
  PROVE  ContentsRight'
<1>1. ASSUME NEW i \in Int, Present(i)'
      PROVE  elements'[At(Pos(i))'][Cell(i)] = i + 1
  <2>1. Present(i) /\ IsIn(i) /\ At(Pos(i))' = At(Pos(i))
    BY <1>1 DEF PresentIn
  <2>2. elements[At(Pos(i))][Cell(i)] = i + 1
    BY <2>1 DEF ContentsRight, IsIn
  <2> QED BY <2>1, <2>2
<1>2. ASSUME NEW b \in Blocks, NEW j \in Cells, elements'[b][j] # NoMessage
      PROVE  \E i \in 0 .. (tailIndex + batch.count)' :
                Present(i)' /\ b = At(Pos(i))' /\ j = Cell(i)
  <2>1. PICK i \in 0 .. tailIndex + batch.count :
           Present(i) /\ b = At(Pos(i)) /\ j = Cell(i)
    BY <1>2 DEF ContentsRight
  <2>2. i \in Int
    OBVIOUS
  <2>3. Present(i)' /\ At(Pos(i))' = At(Pos(i))
    BY <2>1, <2>2
  <2>4. i \in 0 .. (tailIndex + batch.count)'
    BY <2>2, <2>3 DEF PresentIn, IsIn
  <2> QED BY <2>1, <2>3, <2>4
<1>3. \A i \in 0 .. (tailIndex + batch.count)' : Present(i)' =>
         elements'[At(Pos(i))'][Cell(i)] = i + 1
  BY <1>1
<1> QED BY <1>2, <1>3 DEF ContentsRight

\* Elements that are there are in different cells.
LEMMA CellsDiffer ==
  ASSUME RingRight, NEW i \in Int, NEW k \in Int, Live(Pos(i)), Live(Pos(k)),
         At(Pos(i)) = At(Pos(k)), Cell(i) = Cell(k)
  PROVE  i = k
<1>1. Pos(i) \in 0 .. Latest /\ Pos(k) \in 0 .. Latest
  BY DEF Live
<1>2. Pos(i) = Pos(k)
  BY <1>1 DEF RingRight
<1>3. i = Begin(Pos(i)) + Cell(i) /\ k = Begin(Pos(k)) + Cell(k)
  BY Index
<1> QED BY <1>2, <1>3

LEMMA ProducerPresent ==
  ASSUME TypeOK, TicketInv, ClaimRight, BatchRight, CircleRight, SlotsRight, RingRight, Producer
  PROVE  /\ \A i \in Int : Present(i) <=>
            \/ i \in headIndex .. tailIndex - 1
            \/ ppc = "commit" /\ i \in tailIndex .. tailIndex + batch.count - 1
            \/ \E c \in Claimants : i \in MovedTo(c) .. ClaimedTo(c) - 1
         /\ \A i \in Int : Present(i)' <=>
            \/ i \in headIndex .. tailIndex' - 1
            \/ ppc' = "commit" /\ i \in tailIndex' .. tailIndex' + batch'.count - 1
            \/ \E c \in Claimants : i \in MovedTo(c) .. ClaimedTo(c) - 1
<1>1. UNCHANGED <<headIndex, consumer>>
  BY ProducerMoves
<1>2. /\ Claimants' = Claimants /\ headIndex' = headIndex
      /\ \A c \in Claimants : ClaimedTo(c)' = ClaimedTo(c) /\ MovedTo(c)' = MovedTo(c)
  BY <1>1, ConsumersSame
<1> QED BY <1>2 DEF Present

\* The block of an element of this call.
LEMMA BlockOfNew ==
  ASSUME TypeOK, TicketInv, BatchRight, RingRight, ppc = "write",
         NEW i \in tailIndex .. tailIndex + batch.count - 1
  PROVE  /\ i \in Nat /\ Live(Pos(i))
         /\ Chain[(Base(i) - BlockStart(0)) \div BlockSize] = At(Pos(i))
<1>0. /\ tailIndex \in Nat /\ headIndex \in Nat /\ headIndex <= tailIndex
      /\ Started \in Nat /\ Latest \in Nat /\ batch.blocks \in Nat
      /\ Latest = Started - 1 + batch.blocks
      /\ Latest = Pos(tailIndex + batch.count - 1) /\ batch.count \in Nat
      /\ Pos(tailIndex - 1) = Started - 1
  BY Where, AllThere, StartedIs
<1>1. i \in Nat /\ Pos(i) \in Nat
  BY <1>0, PosOfNat
<1>2. Pos(i) <= Latest
  <2>1. tailIndex + batch.count - 1 \in Int /\ i <= tailIndex + batch.count - 1
    BY <1>0
  <2> QED BY <1>0, <1>1, <2>1, PosMono
<1>3. Started - 1 <= Pos(i)
  <2>1. tailIndex - 1 \in Int /\ tailIndex - 1 <= i
    BY <1>0
  <2> QED BY <1>0, <1>1, <2>1, PosMono
<1>4. Live(Pos(i))
  <2>1. i >= headIndex
    BY <1>0
  <2>2. Pos(headIndex) <= Pos(i)
    BY <1>0, <1>1, <2>1, PosMono
  <2>3. Needed(Pos(i))
    BY <1>0, <1>1, <2>2, NeededHead
  <2> QED BY <1>1, <1>2, <2>3 DEF Live
<1>5. PICK k \in 0 .. batch.blocks : Pos(i) = Started - 1 + k
  <2>1. \A p \in Nat, s \in Nat, n \in Nat : s - 1 <= p /\ p <= s - 1 + n =>
           p - (s - 1) \in 0 .. n /\ p = s - 1 + (p - (s - 1))
    OBVIOUS
  <2>2. Pos(i) - (Started - 1) \in 0 .. batch.blocks
        /\ Pos(i) = Started - 1 + (Pos(i) - (Started - 1))
    BY <1>0, <1>1, <1>2, <1>3, <2>1
  <2> QED BY <2>2
<1>6. (Base(i) - BlockStart(0)) \div BlockSize = k
  <2>1. PICK s \in Int, z \in Int : s = Started - 1 /\ z = 0 /\ s + z = s
    BY <1>0
  <2>2. Base(i) = BlockSize * (s + k) /\ BlockStart(0) = BlockSize * s
    BY <1>0, <1>1, <1>5, <2>1, Index, BlockStartIs DEF Begin
  <2>3. BlockSize \in Nat /\ BlockSize > 0 /\ k \in Int
    BY <1>0, SizeAssumption
  <2>4. BlockSize * (s + k) - BlockSize * s = BlockSize * k
    BY <2>1, <2>3
  <2>5. BlockSize * k = BlockSize * k + 0 /\ BlockSize * k \in Int /\ 0 \in 0 .. BlockSize - 1
    BY <2>3
  <2>6. (BlockSize * k) \div BlockSize = k
    BY <2>3, <2>5, Quotient
  <2> QED BY <2>2, <2>4, <2>6
<1>7. Chain[k] = At(Pos(i))
  <2>1. CASE k = 0
    <3>1. Pos(i) = Started - 1
      BY <1>0, <1>5, <2>1
    <3>2. Live(Started - 1)
      BY <1>4, <3>1
    <3>3. batch.start = At(Started - 1)
      BY <3>2 DEF RingRight, InBatch
    <3> QED BY <2>1, <3>1, <3>3, ChainAt
  <2>2. CASE k # 0
    <3>1. k \in 1 .. batch.blocks
      BY <1>0, <2>2
    <3> QED BY <1>5, <3>1, ChainAt
  <2> QED BY <2>1, <2>2
<1>8. Chain[(Base(i) - BlockStart(0)) \div BlockSize] = Chain[k]
  BY <1>6
<1> HIDE DEF Live
<1> QED BY <1>1, <1>4, <1>7, <1>8, Zenon

LEMMA WriteContents ==
  ASSUME TypeOK, TicketInv, ClaimRight, BatchRight, CircleRight, SlotsRight, RingRight,
         ContentsRight, PresentIn, PresentIn', Producer, WriteElements
  PROVE  ContentsRight'
<1> DEFINE new == tailIndex .. tailIndex + batch.count - 1
           blockOf(i) == Chain[(Base(i) - BlockStart(0)) \div BlockSize]
           here(b, j) == {i \in new : blockOf(i) = b /\ Cell(i) = j}
<1>1. /\ ppc = "write" /\ ppc' = "commit" /\ tailIndex' = tailIndex /\ batch' = batch
      /\ elements' = [b \in Blocks |-> [j \in Cells |->
            IF here(b, j) = {} THEN elements[b][j] ELSE Min(here(b, j)) + 1]]
  BY DEF WriteElements, counters
<1>2. /\ headIndex \in Nat /\ tailIndex \in Nat /\ batch.count \in Nat /\ headIndex <= tailIndex
  BY Where, BatchTypes
<1>3. \A i \in new : i \in Nat /\ Live(Pos(i)) /\ blockOf(i) = At(Pos(i))
  BY <1>1, BlockOfNew
<1>4. \A i \in Int : Present(i)' <=> Present(i) \/ i \in new
  BY <1>1, ProducerPresent
<1>5. \A i \in Int : Present(i) => i < tailIndex /\ i \notin new
  <2>1. ASSUME NEW i \in Int, NEW c \in Claimants, i \in MovedTo(c) .. ClaimedTo(c) - 1
        PROVE  i < tailIndex
    BY <1>2, <2>1, ClaimFacts, FoundTypes
  <2>2. ASSUME NEW i \in Int, Present(i) PROVE i < tailIndex
    BY <1>1, <1>2, <2>1, <2>2, ProducerPresent
  <2> QED BY <1>2, <2>2
<1>6. \A p : Live(p) => At(p)' = At(p)
  <2>1. Latest' = Latest
    BY StaysDoes DEF Stays
  <2>2. \A p : Live(p) => p \in 0 .. Latest
    BY DEF Live
  <2> QED BY <2>1, <2>2, SameLive
<1>7. \A i \in Int : Present(i) \/ i \in new => Live(Pos(i)) /\ At(Pos(i)) \in Blocks /\ Cell(i) \in Cells
  <2>1. \A i \in Int : Present(i) \/ i \in new => Live(Pos(i))
    BY <1>3 DEF PresentIn, IsIn
  <2>2. \A p : Live(p) => At(p) \in Blocks
    BY DEF Live, RingRight, Own
  <2> QED BY <2>1, <2>2, Index
<1> HIDE DEF new, blockOf
<1>8. ASSUME NEW i \in Int, i \in new
      PROVE  here(At(Pos(i)), Cell(i)) = {i}
  <2>1. ASSUME NEW k \in new, blockOf(k) = At(Pos(i)), Cell(k) = Cell(i) PROVE k = i
    BY <1>3, <1>8, <2>1, CellsDiffer
  <2> QED BY <1>3, <1>8, <2>1
<1>9. ASSUME NEW i \in Int, Present(i)
      PROVE  here(At(Pos(i)), Cell(i)) = {}
  <2>1. ASSUME NEW k \in new, blockOf(k) = At(Pos(i)), Cell(k) = Cell(i) PROVE FALSE
    <3>1. k = i
      BY <1>3, <1>7, <1>9, <2>1, CellsDiffer
    <3> QED BY <1>5, <1>9, <3>1
  <2> QED BY <2>1
<1> HIDE DEF here
<1>10. ASSUME NEW i \in Int, Present(i)'
       PROVE  elements'[At(Pos(i))'][Cell(i)] = i + 1
  <2>1. /\ Present(i) \/ i \in new
        /\ Live(Pos(i)) /\ At(Pos(i)) \in Blocks /\ Cell(i) \in Cells
        /\ At(Pos(i))' = At(Pos(i))
    BY <1>4, <1>6, <1>7, <1>10
  <2>2. elements'[At(Pos(i))'][Cell(i)] =
           IF here(At(Pos(i)), Cell(i)) = {} THEN elements[At(Pos(i))][Cell(i)]
           ELSE Min(here(At(Pos(i)), Cell(i))) + 1
    BY <1>1, <2>1
  <2>3. CASE Present(i)
    <3>1. elements[At(Pos(i))][Cell(i)] = i + 1
      BY <2>3 DEF PresentIn, IsIn, ContentsRight
    <3> QED BY <1>9, <2>2, <2>3, <3>1
  <2>4. CASE i \in new
    <3>1. Min({i}) = i
      <4>1. {i} \in SUBSET Nat /\ {i} # {}
        BY <1>3, <2>4
      <4>2. Min({i}) \in {i}
        BY <4>1, LeastIs, Zenon
      <4> QED BY <4>2
    <3>2. here(At(Pos(i)), Cell(i)) = {i} /\ {i} # {}
      BY <1>8, <2>4
    <3> QED BY <2>2, <3>1, <3>2
  <2> QED BY <2>1, <2>3, <2>4
<1>11. ASSUME NEW b \in Blocks, NEW j \in Cells, elements'[b][j] # NoMessage
       PROVE  \E i \in Int : Present(i)' /\ b = At(Pos(i))' /\ j = Cell(i)
  <2>1. CASE here(b, j) = {}
    <3>1. elements[b][j] # NoMessage
      BY <1>1, <1>11, <2>1
    <3>2. PICK i \in 0 .. tailIndex + batch.count :
             Present(i) /\ b = At(Pos(i)) /\ j = Cell(i)
      BY <3>1 DEF ContentsRight
    <3> QED BY <1>4, <1>6, <1>7, <3>2
  <2>2. CASE here(b, j) # {}
    <3>1. PICK i \in new : blockOf(i) = b /\ Cell(i) = j
      BY <2>2 DEF here
    <3>2. i \in Int /\ At(Pos(i))' = b /\ Present(i)'
      BY <1>3, <1>4, <1>6, <3>1
    <3> QED BY <3>1, <3>2
  <2> QED BY <2>1, <2>2
<1>12. ASSUME NEW b \in Blocks, NEW j \in Cells, elements'[b][j] # NoMessage
       PROVE  \E i \in 0 .. (tailIndex + batch.count)' :
                 Present(i)' /\ b = At(Pos(i))' /\ j = Cell(i)
  BY <1>11, <1>12 DEF PresentIn, IsIn
<1>13. \A i \in 0 .. (tailIndex + batch.count)' : Present(i)' =>
          elements'[At(Pos(i))'][Cell(i)] = i + 1
  BY <1>10
<1> QED BY <1>12, <1>13 DEF ContentsRight

LEMMA ProducerContents ==
  ASSUME TypeOK, TicketInv, ClaimRight, BatchRight, CircleRight, SlotsRight, RingRight,
         ContentsRight, PresentIn, PresentIn', Producer
  PROVE  ContentsRight'
<1>0. /\ headIndex \in Nat /\ tailIndex \in Nat /\ batch.count \in Nat /\ headIndex <= tailIndex
      /\ Started \in Nat /\ Latest \in Int /\ Started - 1 <= Latest
  BY Where, BatchTypes
<1>1. CASE WriteElements
  BY <1>1, WriteContents
<1>2. CASE Commit
  <2>1. /\ tailIndex' = tailIndex + batch.count /\ batch'.count = 0 /\ Latest' = Latest
        /\ ppc = "commit" /\ ppc' = "idle" /\ elements' = elements
    BY <1>2, CommitDoes DEF contents
  <2>2. \A i \in Int : Present(i)' <=> Present(i)
    <3>1. \A i \in Int : i \in headIndex .. tailIndex' - 1 <=>
             i \in headIndex .. tailIndex - 1 \/ i \in tailIndex .. tailIndex + batch.count - 1
      BY <1>0, <2>1
    <3> QED BY <2>1, <3>1, ProducerPresent
  <2>3. \A i \in Int : Present(i) => At(Pos(i))' = At(Pos(i))
    <3>1. \A i \in Int : Present(i) => Live(Pos(i)) /\ Pos(i) \in 0 .. Latest
      BY DEF PresentIn, IsIn, Live
    <3> QED BY <2>1, <3>1, SameLive
  <2> QED BY <2>1, <2>2, <2>3, ContentsKept
<1>3. CASE ~WriteElements /\ ~Commit
  <2>1. ppc # "commit" /\ ppc' # "commit" /\ elements' = elements /\ tailIndex' = tailIndex
    BY <1>3, ProducerCases DEF EnqueueStart, ReuseBlock, Obtain, NeedBlock, GoesOn, Fails, Undo,
       Takes, StoreBase, StoreBlock, StoreFront, contents, counters
  <2>2. \A i \in Int : Present(i)' <=> Present(i)
    BY <2>1, ProducerPresent
  <2>3. Started - 1 <= Latest'
    <3>1. CASE \E b \in Blocks : Gets(b)
      BY <1>0, <3>1, GetsDoes
    <3>2. CASE Fails
      BY <1>0, <3>2, FailsDoes
    <3>3. CASE Stays
      BY <1>0, <3>3, StaysDoes
    <3> QED BY <1>3, <3>1, <3>2, <3>3, ProducerMoves
  <2>4. ASSUME NEW i \in Int, Present(i) PROVE At(Pos(i))' = At(Pos(i))
    <3>1. i < tailIndex
      <4>1. ASSUME NEW c \in Claimants, i \in MovedTo(c) .. ClaimedTo(c) - 1
            PROVE  i < tailIndex
        BY <1>0, <4>1, ClaimFacts, FoundTypes
      <4> QED BY <1>0, <2>1, <2>4, <4>1, ProducerPresent
    <3>2. Pos(i) \in Nat /\ Live(Pos(i)) /\ Pos(i) < Started
      BY <2>4, <3>1, IndexBelow DEF PresentIn, IsIn
    <3>3. Latest' \in Int
      <4>1. CASE \E b \in Blocks : Gets(b)
        BY <1>0, <4>1, GetsDoes
      <4>2. CASE Fails
        BY <1>0, <4>2, FailsDoes
      <4>3. CASE Stays
        BY <1>0, <4>3, StaysDoes
      <4> QED BY <1>3, <4>1, <4>2, <4>3, ProducerMoves
    <3>4. Pos(i) <= Latest'
      BY <1>0, <2>3, <3>2, <3>3
    <3> QED BY <3>2, <3>4, ProducerAt
  <2> QED BY <2>1, <2>2, <2>4, ContentsKept
<1> QED BY <1>1, <1>2, <1>3

\* Only the claims of the consumer that moves change.
LEMMA ConsumerPresent ==
  ASSUME Claimants' = Claimants, UNCHANGED <<headIndex, tailIndex, producer>>,
         \A d \in Claimants : MovedTo(d)' = MovedTo(d) /\ ClaimedTo(d)' = ClaimedTo(d)
  PROVE  \A i \in Int : Present(i)' <=> Present(i)
<1>1. ppc' = ppc /\ batch' = batch /\ tailIndex' = tailIndex /\ headIndex' = headIndex
  BY DEF producer
<1> QED BY <1>1 DEF Present

LEMMA MovePresent ==
  ASSUME TypeOK, TicketInv, LayoutInv, NEW c \in Consumers, MoveElements(c)
  PROVE  \A i \in Int : Present(i)' <=> Present(i) /\ i \notin found[c].index .. MoveEnd(c) - 1
<1>0. /\ ClaimRight /\ pc[c] = "move" /\ c \in Claimants /\ Claimants' = Claimants
      /\ UNCHANGED <<headIndex, tailIndex, producer>>
      /\ found'[c].first = found[c].first
      /\ \A d \in Consumers : /\ ClaimedTo(d)' = ClaimedTo(d)
                              /\ d # c => MovedTo(d)' = MovedTo(d)
  BY MoveDoes, LayoutParts, ProducerStays DEF Consumer, MoveEnd
<1>1. ppc' = ppc /\ batch' = batch /\ tailIndex' = tailIndex /\ headIndex' = headIndex
  BY <1>0 DEF producer
<1>2. MovedTo(c)' = MoveEnd(c) /\ MovedTo(c) = found[c].index
  <2>1. /\ Len(found'[c].out) = MoveEnd(c) - found[c].first
        /\ MoveEnd(c) \in Nat /\ found[c].first \in Nat
    BY <1>0, MovesRight, MoveEnds, FoundTypes
  <2>2. found'[c].first + Len(found'[c].out) = MoveEnd(c)
    BY <1>0, <2>1
  <2> QED BY <1>0, <2>2, ClaimFacts DEF MovedTo
<1>3. /\ headIndex \in Nat /\ tailIndex \in Nat /\ headIndex <= tailIndex
      /\ found[c].index \in Nat /\ MoveEnd(c) \in Nat /\ ClaimedTo(c) \in Nat
      /\ found[c].index < MoveEnd(c) /\ MoveEnd(c) <= ClaimedTo(c) /\ ClaimedTo(c) <= headIndex
  BY <1>0, Where, FoundTypes, MoveEnds, ClaimFacts
<1>4. ASSUME NEW d \in Claimants, d # c, NEW i \in Int, i \in MovedTo(d) .. ClaimedTo(d) - 1
      PROVE  i \notin found[c].index .. MoveEnd(c) - 1
  <2>1. ClaimedTo(d) <= found[c].index \/ ClaimedTo(c) <= found[d].index
    BY <1>0, <1>4 DEF ClaimRight
  <2>2. /\ d \in Consumers /\ ClaimedTo(d) \in Nat /\ MovedTo(d) \in Nat
        /\ found[d].index \in Nat /\ found[d].index <= MovedTo(d)
    <3>1. d \in Consumers
      BY DEF Claimants
    <3>2. /\ found[d].index < MoveEnd(d) /\ MoveEnd(d) \in Nat /\ found[d].index \in Nat
          /\ MovedTo(d) = IF pc[d] = "empty" THEN MoveEnd(d) ELSE found[d].index
      BY <1>0, <3>1, MoveEnds, ClaimFacts, FoundTypes DEF MoveEnd
    <3> QED BY <3>1, <3>2, FoundTypes
  <2> QED BY <1>3, <1>4, <2>1, <2>2
<1>5. ASSUME NEW i \in Int
      PROVE  Present(i)' <=> Present(i) /\ i \notin found[c].index .. MoveEnd(c) - 1
  <2>1. i \in headIndex .. tailIndex - 1 => i \notin found[c].index .. MoveEnd(c) - 1
    BY <1>3
  <2>2. i \in tailIndex .. tailIndex + batch.count - 1 => i \notin found[c].index .. MoveEnd(c) - 1
    BY <1>3, BatchTypes
  <2>3. i \in MoveEnd(c) .. ClaimedTo(c) - 1 <=>
           i \in found[c].index .. ClaimedTo(c) - 1 /\ i \notin found[c].index .. MoveEnd(c) - 1
    BY <1>3
  <2>4. (\E d \in Claimants : i \in MovedTo(d)' .. ClaimedTo(d)' - 1) <=>
           /\ \E d \in Claimants : i \in MovedTo(d) .. ClaimedTo(d) - 1
           /\ i \notin found[c].index .. MoveEnd(c) - 1
    <3>0. Claimants \subseteq Consumers
      BY DEF Claimants
    <3>1. ASSUME NEW d \in Claimants, i \in MovedTo(d)' .. ClaimedTo(d)' - 1
          PROVE  /\ i \in MovedTo(d) .. ClaimedTo(d) - 1
                 /\ i \notin found[c].index .. MoveEnd(c) - 1
      <4>1. CASE d = c
        BY <1>0, <1>2, <2>3, <3>1, <4>1
      <4>2. CASE d # c
        BY <1>0, <1>4, <3>0, <3>1, <4>2
      <4> QED BY <4>1, <4>2
    <3>2. ASSUME NEW d \in Claimants, i \in MovedTo(d) .. ClaimedTo(d) - 1,
                 i \notin found[c].index .. MoveEnd(c) - 1
          PROVE  i \in MovedTo(d)' .. ClaimedTo(d)' - 1
      <4>1. CASE d = c
        BY <1>0, <1>2, <2>3, <3>2, <4>1
      <4>2. CASE d # c
        BY <1>0, <3>0, <3>2, <4>2
      <4> QED BY <4>1, <4>2
    <3> QED BY <3>1, <3>2
  <2> QED BY <1>0, <1>1, <2>1, <2>2, <2>4 DEF Present
<1> QED BY <1>5

LEMMA MoveContents ==
  ASSUME TypeOK, TicketInv, LayoutInv, BasesRight, RingRight, ContentsRight, PresentIn, PresentIn',
         NEW c \in Consumers, MoveElements(c)
  PROVE  ContentsRight'
<1> DEFINE b == found[c].block
           p == Pos(found[c].index)
           gone == found[c].index .. MoveEnd(c) - 1
<1>1. /\ ClaimRight /\ c \in Claimants /\ pc[c] = "move"
      /\ elements' = [elements EXCEPT ![b] = [i \in Cells |->
            IF Base(found[c].index) + i \in gone THEN NoMessage ELSE elements[b][i]]]
      /\ \A q : At(q)' = At(q)
  BY LayoutParts, MoveDoes, ProducerStays, ProducerSame DEF Consumer, MoveEnd
<1>2. b = At(p) /\ b \in Blocks /\ Live(p)
  BY <1>1, ClaimedPos, MovesRight DEF BasesRight
<1>3. \A i \in Int : Present(i)' <=> Present(i) /\ i \notin gone
  BY MovePresent
<1>4. /\ \A i \in gone : i \in Nat /\ Pos(i) = p /\ Base(found[c].index) + Cell(i) = i
      /\ elements \in [Blocks -> [Cells -> Nat]]
  BY <1>1, MoveEnds DEF TypeOK
<1>5. \A i \in Int : Present(i) => Live(Pos(i)) /\ At(Pos(i)) \in Blocks /\ Cell(i) \in Cells
  <2>1. \A i \in Int : Present(i) => Live(Pos(i))
    BY DEF PresentIn, IsIn
  <2>2. \A q : Live(q) => At(q) \in Blocks
    BY DEF Live, RingRight, Own
  <2> QED BY <2>1, <2>2, Index
\* A cell of this block is one of those moved out, or not.
<1>6. ASSUME NEW i \in Int, Present(i), At(Pos(i)) = b
      PROVE  Base(found[c].index) + Cell(i) = i
  <2>1. Pos(i) \in 0 .. Latest /\ p \in 0 .. Latest
    BY <1>2, <1>5, <1>6 DEF Live
  <2>2. Pos(i) = p
    BY <1>2, <1>5, <1>6, <2>1 DEF RingRight
  <2>3. found[c].index \in Int
    BY FoundTypes
  <2>4. i = Begin(Pos(i)) + Cell(i) /\ Base(found[c].index) = Begin(p)
    BY <2>3, Index
  <2> QED BY <2>2, <2>4
<1> HIDE DEF b, p, gone
<1>7. ASSUME NEW i \in Int, Present(i)'
      PROVE  elements'[At(Pos(i))'][Cell(i)] = i + 1
  <2>1. /\ Present(i) /\ i \notin gone /\ At(Pos(i)) \in Blocks /\ Cell(i) \in Cells
        /\ At(Pos(i))' = At(Pos(i))
    BY <1>1, <1>3, <1>5, <1>7
  <2>2. elements[At(Pos(i))][Cell(i)] = i + 1
    BY <2>1 DEF PresentIn, IsIn, ContentsRight
  <2>3. CASE At(Pos(i)) = b
    <3>1. Base(found[c].index) + Cell(i) = i
      BY <1>6, <2>1, <2>3
    <3>2. elements'[b][Cell(i)] = elements[b][Cell(i)]
      BY <1>1, <1>2, <1>4, <2>1, <3>1
    <3> QED BY <2>1, <2>2, <2>3, <3>2
  <2>4. CASE At(Pos(i)) # b
    BY <1>1, <1>4, <2>1, <2>2, <2>4
  <2> QED BY <2>3, <2>4
<1>8. ASSUME NEW d \in Blocks, NEW j \in Cells, elements'[d][j] # NoMessage
      PROVE  \E i \in 0 .. (tailIndex + batch.count)' :
                Present(i)' /\ d = At(Pos(i))' /\ j = Cell(i)
  <2>1. elements[d][j] # NoMessage
    BY <1>1, <1>2, <1>4, <1>8
  <2>2. PICK i \in 0 .. tailIndex + batch.count : Present(i) /\ d = At(Pos(i)) /\ j = Cell(i)
    BY <2>1 DEF ContentsRight
  <2>3. i \in Int
    OBVIOUS
  <2>4. i \notin gone
    <3>1. ASSUME i \in gone PROVE FALSE
      <4>1. Pos(i) = p /\ Base(found[c].index) + j = i /\ d = b
        BY <1>2, <1>4, <2>2, <3>1
      <4>2. elements'[b][j] = NoMessage
        BY <1>1, <1>2, <1>4, <3>1, <4>1
      <4> QED BY <1>8, <4>1, <4>2
    <3> QED BY <3>1
  <2>5. Present(i)'
    BY <1>3, <2>2, <2>3, <2>4
  <2>6. i \in 0 .. (tailIndex + batch.count)'
    BY <2>3, <2>5 DEF PresentIn, IsIn
  <2> QED BY <1>1, <2>2, <2>5, <2>6
<1>9. \A i \in 0 .. (tailIndex + batch.count)' : Present(i)' =>
         elements'[At(Pos(i))'][Cell(i)] = i + 1
  BY <1>7
<1> QED BY <1>8, <1>9 DEF ContentsRight

LEMMA ConsumerContents ==
  ASSUME TypeOK, TicketInv, LayoutInv, BasesRight, RingRight, ContentsRight, PresentIn, PresentIn',
         NEW c \in Consumers, Consumer(c)
  PROVE  ContentsRight'
<1>0. ClaimRight /\ Claimants \subseteq Consumers
  BY LayoutParts DEF Claimants
<1>1. /\ UNCHANGED <<tailIndex, circle, index, places, producer>>
      /\ UNCHANGED <<tailIndex, producer>>
  BY ProducerStays
<1>2. \A p : At(p)' = At(p)
  BY <1>1, ProducerSame
<1>3. CASE Early(c)
  <2>1. /\ Claimants' = Claimants /\ UNCHANGED <<headIndex, tailIndex, producer>>
        /\ elements' = elements
        /\ \A d \in Claimants : MovedTo(d)' = MovedTo(d) /\ ClaimedTo(d)' = ClaimedTo(d)
    BY <1>0, <1>1, <1>3, EarlyDoes DEF contents
  <2> QED BY <1>2, <2>1, ConsumerPresent, ContentsKept
<1>4. CASE Claim(c)
  <2>1. elements' = elements /\ \A i \in Int : Present(i)' <=> Present(i)
    BY <1>0, <1>4, ClaimsAt, ClaimNeeds DEF contents
  <2> QED BY <1>2, <2>1, ContentsKept
<1>5. CASE LooksUp(c)
  <2>1. /\ Claimants' = Claimants /\ UNCHANGED <<headIndex, tailIndex, producer>>
        /\ elements' = elements
        /\ \A d \in Consumers : MovedTo(d)' = MovedTo(d) /\ ClaimedTo(d)' = ClaimedTo(d)
    BY <1>0, <1>1, <1>5, LookupDoes DEF contents
  <2> QED BY <1>0, <1>2, <2>1, ConsumerPresent, ContentsKept
<1>6. CASE MoveElements(c)
  BY <1>6, MoveContents
<1>7. CASE SetEmpty(c)
  <2>1. /\ UNCHANGED <<headIndex, tailIndex, producer>> /\ elements' = elements
        /\ \A d \in Consumers : d # c => ClaimedTo(d)' = ClaimedTo(d) /\ MovedTo(d)' = MovedTo(d)
    BY <1>1, <1>7, SetEmptyDoes
  <2>2. CASE MovedTo(c) # ClaimedTo(c)
    <3>1. Claimants' = Claimants /\ ClaimedTo(c)' = ClaimedTo(c) /\ MovedTo(c)' = MovedTo(c)
      BY <1>7, <2>2, SetEmptyDoes
    <3>2. \A i \in Int : Present(i)' <=> Present(i)
      BY <1>0, <2>1, <3>1, ConsumerPresent
    <3> QED BY <1>2, <2>1, <3>2, ContentsKept
  <2>3. CASE MovedTo(c) = ClaimedTo(c)
    <3>1. Claimants' = Claimants \ {c}
      BY <1>7, <2>3, SetEmptyDoes
    <3>2. MovedTo(c) .. ClaimedTo(c) - 1 = {}
      BY <2>3, FoundTypes
    <3>3. /\ ppc' = ppc /\ batch' = batch /\ tailIndex' = tailIndex /\ headIndex' = headIndex
      BY <2>1 DEF producer
    <3>4. \A i \in Int : Present(i)' <=> Present(i)
      BY <1>0, <2>1, <3>1, <3>2, <3>3 DEF Present
    <3> QED BY <1>2, <2>1, <3>4, ContentsKept
  <2> QED BY <2>2, <2>3
<1> QED BY <1>3, <1>4, <1>5, <1>6, <1>7 DEF Consumer, Early, LooksUp

LEMMA StepContents ==
  ASSUME TypeOK, TicketInv, LayoutInv, Next, ppc' # "destroyed"
  PROVE  ContentsRight'
<1>0. /\ ppc # "destroyed" /\ ~Destroy /\ PresentIn /\ PresentIn'
      /\ ClaimRight /\ BatchRight /\ CircleRight /\ SlotsRight /\ BasesRight /\ RingRight
      /\ ContentsRight
  BY NotDestroyed, LayoutParts, StepPresentIn
<1>1. CASE Producer
  BY <1>0, <1>1, ProducerContents
<1>2. ASSUME NEW c \in Consumers, Consumer(c) PROVE ContentsRight'
  BY <1>0, <1>2, ConsumerContents
<1>3. CASE Others
  <2>1. /\ Claimants' = Claimants /\ UNCHANGED <<headIndex, tailIndex, producer>>
        /\ elements' = elements /\ UNCHANGED <<headIndex, consumer>>
        /\ \A p : At(p)' = At(p)
    BY <1>3, OthersSame DEF producer
  <2>2. \A d \in Claimants : MovedTo(d)' = MovedTo(d) /\ ClaimedTo(d)' = ClaimedTo(d)
    BY <2>1, ConsumersSame
  <2>3. \A i \in Int : Present(i)' <=> Present(i)
    BY <2>1, <2>2, ConsumerPresent
  <2> QED BY <1>0, <2>1, <2>3, ContentsKept
<1> QED BY <1>0, <1>1, <1>2, <1>3, NextCases

-----------------------------------------------------------------------------
(* The inductive invariant *)

LEMMA StutterLayout ==
  ASSUME LayoutInv, UNCHANGED vars
  PROVE  LayoutInv'
<1>1. /\ UNCHANGED <<counters, circle, contents, index, places, producer, consumer>>
      /\ tailIndex' = tailIndex /\ headIndex' = headIndex /\ tailBlock' = tailBlock
      /\ next' = next /\ elements' = elements /\ emptyFlags' = emptyFlags
      /\ base' = base /\ block' = block /\ front' = front /\ nextFront' = nextFront
      /\ slotsUsed' = slotsUsed /\ pool' = pool /\ other' = other /\ ppc' = ppc
      /\ batch' = batch /\ pc' = pc /\ ticket' = ticket /\ found' = found
  BY DEF vars, counters, circle, contents, index, entries, places, producer, consumer
<1>2. /\ Started' = Started /\ Latest' = Latest /\ Own' = Own /\ Claimants' = Claimants
      /\ \A c : ClaimedTo(c)' = ClaimedTo(c) /\ MovedTo(c)' = MovedTo(c)
      /\ \A n, k : NeedsMore(n, k)' <=> NeedsMore(n, k)
      /\ \A p : At(p)' = At(p)
  BY <1>1 DEF Started, Latest, Own, Claimants, ClaimedTo, MovedTo, NeedsMore, BlockStart, At
<1>3. /\ \A i : NotEmptied(i)' <=> NotEmptied(i)
      /\ \A i : Present(i)' <=> Present(i)
      /\ \A e : Matches(e)' <=> Matches(e)
  BY <1>1, <1>2 DEF NotEmptied, Present, Matches
<1>4. /\ \A p : Needed(p)' <=> Needed(p)
      /\ \A p : Emptied(p)' = Emptied(p)
  BY <1>1, <1>3 DEF Needed, Emptied
<1>5. /\ \A p : Live(p)' <=> Live(p)
      /\ Live(Latest)' <=> Live(Latest)
      /\ Live(Started - 1)' <=> Live(Started - 1)
      /\ At(Latest)' = At(Latest) /\ At(Started)' = At(Started)
      /\ At(Started - 1)' = At(Started - 1)
  BY <1>1, <1>2, <1>4 DEF Live, At, Needed
<1>6. ClaimRight => ClaimRight'
  BY <1>1, <1>2 DEF ClaimRight
<1>7. BatchRight => BatchRight'
  BY <1>1, <1>2 DEF BatchRight, InBatch
<1>8. CircleRight => CircleRight'
  BY <1>1, <1>2 DEF CircleRight
<1>9. SlotsRight => SlotsRight'
  BY <1>1, <1>2 DEF SlotsRight
<1>10. BasesRight => BasesRight'
  BY <1>1, <1>2, <1>3 DEF BasesRight
<1>11. RingRight => RingRight'
  BY <1>1, <1>2, <1>5 DEF RingRight, InBatch
<1>12. FlagsRight => FlagsRight'
  BY <1>1, <1>2, <1>4, <1>5 DEF FlagsRight, IsEmpty
<1>13. ContentsRight => ContentsRight'
  BY <1>1, <1>2, <1>3 DEF ContentsRight
<1> QED BY <1>1, <1>6, <1>7, <1>8, <1>9, <1>10, <1>11, <1>12, <1>13 DEF LayoutInv

LEMMA StepLayout ==
  ASSUME TypeOK, TicketInv, LayoutInv, [Next]_vars
  PROVE  LayoutInv'
<1>1. CASE Next /\ ppc' # "destroyed"
  BY <1>1, StepClaims, StepBatch, StepCircle, StepSlots, StepBases, StepRing, StepContents
     DEF LayoutInv
<1>2. CASE Next /\ ppc' = "destroyed"
  <2>1. ClaimRight' /\ BatchRight' /\ CircleRight'
    BY <1>2, StepClaims, StepBatch, StepCircle
  <2>2. tailBlock' = Null /\ \A c \in Consumers : pc'[c] = "idle"
    <3>1. CASE Producer
      <4>1. ppc' # "destroyed"
        BY <3>1, ProducerCases DEF EnqueueStart, ReuseBlock, Obtain, NeedBlock, GoesOn, Fails,
           Undo, Takes, StoreBase, StoreBlock, StoreFront, WriteElements, Commit
      <4> QED BY <1>2, <4>1
    <3>2. CASE Others
      <4>1. UNCHANGED <<ppc, pc, tailBlock>>
        BY <3>2, OthersSame
      <4> QED BY <1>2, <4>1, LayoutParts
    <3>3. CASE Destroy
      BY <3>3 DEF Destroy, AllReturned, consumer
    <3>4. ASSUME NEW c \in Consumers, Consumer(c) PROVE FALSE
      <4>1. ppc = "destroyed"
        BY <1>2, <3>4, ProducerStays DEF producer
      <4>2. pc[c] = "idle"
        BY <4>1, LayoutParts
      <4> QED BY <3>4, <4>1, <4>2 DEF Consumer, LoadTail, LoadOvercommit, CheckAvailable,
         TakeTickets, Recheck, GiveUp, Claim, LoadFront, LoadBase, LoadBlock, MoveElements,
         SetEmpty, Goto
    <3> QED BY <1>2, <3>1, <3>2, <3>3, <3>4, NextCases
  <2> QED BY <1>2, <2>1, <2>2 DEF LayoutInv
<1>3. CASE UNCHANGED vars
  BY <1>3, StutterLayout
<1> QED BY <1>1, <1>2, <1>3

LEMMA InitTypes == Init => TypeOK
<1> SUFFICES ASSUME Init PROVE TypeOK
  OBVIOUS
<1>1. 0 \in Entries /\ IndexSize \in Nat
  BY SizeAssumption DEF Entries
<1>2. CounterTypes
  BY NoTicketIs DEF Init, CounterTypes, Places
<1>3. BlockTypes
  BY DEF Init, BlockTypes, NoMessage
<1>4. IndexTypes
  BY <1>1 DEF Init, IndexTypes
<1>5. BatchTyped
  BY NoBatchIs DEF Init, BatchTyped
<1>6. FoundTyped
  <2>1. NotFound \in AllFounds
    BY <1>1 DEF NotFound, AllFounds
  <2> QED BY <2>1 DEF Init, FoundTyped
<1> QED BY <1>2, <1>3, <1>4, <1>5, <1>6, TypeParts

LEMMA InitLayout == Init => LayoutInv
<1> SUFFICES ASSUME Init PROVE LayoutInv
  OBVIOUS
<1>0. /\ BlockSize \in Nat /\ BlockSize > 1 /\ IndexSize \in Nat /\ IndexSize > 1
      /\ 0 % IndexSize = 0
  <2>1. BlockSize \in Nat /\ BlockSize > 1 /\ IndexSize \in Nat /\ IndexSize > 1
    BY SizeAssumption
  <2>2. 0 \in 0 .. IndexSize - 1 /\ 0 = IndexSize * 0 + 0 /\ IndexSize > 0
    BY <2>1
  <2>3. 0 % IndexSize = 0
    BY <2>1, <2>2, Quotient
  <2> QED BY <2>1, <2>3
<1>1. /\ tailIndex = 0 /\ headIndex = 0 /\ tailBlock = Null /\ ppc = "idle"
      /\ batch = NoBatch /\ batch.blocks = 0 /\ batch.count = 0 /\ batch.slots = 0
      /\ batch.start = Null /\ batch.first = Null
      /\ nextFront = 0 /\ slotsUsed = 0 /\ front = -1
      /\ Own = {} /\ Claimants = {} /\ ~InBatch
  BY NoBatchIs DEF Init, Own, Claimants, InBatch
<1>2. Started = 0 /\ Latest = -1
  <2>1. Pos(BlockSize - 1) = 0
    <3>1. BlockSize - 1 \in Int /\ Begin(0) <= BlockSize - 1 /\ BlockSize - 1 < Begin(0) + BlockSize
      BY <1>0 DEF Begin
    <3> QED BY <3>1, PosIs
  <2>2. tailIndex + BlockSize - 1 = BlockSize - 1
    BY <1>0, <1>1
  <2>3. Started = 0
    BY <2>1, <2>2 DEF Started
  <2> QED BY <1>1, <2>3 DEF Latest
<1>3. ClaimRight
  BY <1>1 DEF Init, ClaimRight
<1>4. BatchRight
  BY <1>1 DEF BatchRight
<1>5. CircleRight
  BY <1>1 DEF Init, CircleRight
<1>6. SlotsRight
  <2>1. Cardinality(Own) = 0
    BY <1>1, FS_EmptySet
  <2> QED BY <1>0, <1>1, <1>2, <2>1 DEF SlotsRight
<1>7. BasesRight
  <2>1. \A e \in Entries : base[e] = 0 /\ e > -1
    BY <1>0 DEF Init, Entries
  <2> QED BY <1>1, <1>2, <2>1 DEF BasesRight
<1>8. RingRight
  BY <1>1, <1>2 DEF RingRight, Live
<1>9. FlagsRight
  BY <1>1, <1>2 DEF FlagsRight
<1>10. ContentsRight
  <2>1. \A i \in 0 .. tailIndex + batch.count : ~Present(i)
    BY <1>1 DEF Present
  <2>2. \A b \in Blocks, j \in Cells : elements[b][j] = NoMessage
    BY DEF Init
  <2> QED BY <2>1, <2>2 DEF ContentsRight
<1> QED BY <1>1, <1>3, <1>4, <1>5, <1>6, <1>7, <1>8, <1>9, <1>10 DEF LayoutInv

LEMMA StepTypesOrStutter ==
  ASSUME TypeOK, TicketInv, LayoutInv, [Next]_vars
  PROVE  TypeOK'
<1>1. CASE Next
  BY <1>1, StepTypes
<1>2. CASE UNCHANGED vars
  BY <1>2 DEF TypeOK, vars, counters, circle, contents, index, entries, places, producer,
     consumer
<1> QED BY <1>1, <1>2

\* The inductive invariant: types, tickets and layout hold together and are kept by
\* every step; none of the three is inductive alone.
THEOREM ExplicitInvariant == Spec => [](TypeOK /\ TicketInv /\ LayoutInv)
<1>1. Init => TypeOK /\ TicketInv /\ LayoutInv
  BY InitTypes, InitTickets, InitLayout
<1>2. TypeOK /\ TicketInv /\ LayoutInv /\ [Next]_vars => (TypeOK /\ TicketInv /\ LayoutInv)'
  BY StepTypesOrStutter, StepTickets, StepLayout
<1> QED BY <1>1, <1>2, PTL DEF Spec

\* The variables of ExplicitProducer, of its index and of the threads using them
\* keep their types.
THEOREM ExplicitTypes == Spec => []TypeOK
BY ExplicitInvariant, PTL

\* Every block is takeable, with another producer or in the circle, which closes:
\* neither linking a new block in nor undoing a bulk call loses one or has one twice.
THEOREM ExplicitPlaces == Spec => []OnePlacePerBlock
<1>1. TypeOK /\ TicketInv /\ LayoutInv => OnePlacePerBlock
  BY OnePlace
<1> QED BY <1>1, ExplicitInvariant, PTL

-----------------------------------------------------------------------------
(* The circle of blocks implements the bounded FIFO *)

IInv == TypeOK /\ TicketInv /\ LayoutInv

\* The messages of n indexes from a on.
Run(a, n) == [k \in 1 .. n |-> a + k]

LEMMA RunTake ==
  ASSUME NEW h \in Nat, NEW n \in Nat, NEW a \in Nat, a <= n
  PROVE  /\ SubSeq(Run(h, n), 1, a) = Run(h, a)
         /\ SubSeq(Run(h, n), a + 1, n) = Run(h + a, n - a)
         /\ Len(Run(h, n)) = n
<1>1. Run(h, n) \in Seq(Nat) /\ Len(Run(h, n)) = n
  BY DEF Run
<1>2. SubSeq(Run(h, n), 1, a) = Run(h, a)
  <2>1. SubSeq(Run(h, n), 1, a) = [i \in 1 .. a |-> Run(h, n)[i]]
    BY <1>1
  <2>2. \A i \in 1 .. a : Run(h, n)[i] = h + i
    BY DEF Run
  <2> QED BY <2>1, <2>2 DEF Run
<1>3. SubSeq(Run(h, n), a + 1, n) = Run(h + a, n - a)
  <2>1. SubSeq(Run(h, n), a + 1, n) = [i \in 1 .. n - a |-> Run(h, n)[i + a]]
    BY <1>1
  <2>2. \A i \in 1 .. n - a : Run(h, n)[i + a] = (h + a) + i
    BY DEF Run
  <2> QED BY <2>1, <2>2 DEF Run
<1> QED BY <1>1, <1>2, <1>3

HeldRight ==
    \A c \in Consumers :
       Holds(c) = IF c \in Claimants THEN Run(found[c].first, ticket[c].actual) ELSE <<>>

\* A consumer holds the messages of its indexes, from its claim to its return.
LEMMA HeldRuns == IInv => HeldRight
<1> SUFFICES ASSUME IInv, NEW c \in Consumers
             PROVE  Holds(c) = IF c \in Claimants THEN Run(found[c].first, ticket[c].actual)
                               ELSE <<>>
  BY DEF HeldRight
<1>0. TypeOK /\ TicketInv /\ ClaimRight
  BY LayoutParts DEF IInv
<1>1. CASE c \in Claimants
  <2>1. /\ found[c].first \in Nat /\ Len(found[c].out) \in Nat /\ ticket[c].actual \in Nat
        /\ found[c].out = Run(found[c].first, Len(found[c].out))
        /\ MovedTo(c) \in Nat /\ ClaimedTo(c) \in Nat
    BY <1>0, <1>1, FoundTypes DEF ClaimRight, Run
  <2>2. MovedTo(c) <= ClaimedTo(c)
    <3>1. /\ found[c].index < ClaimedTo(c) /\ found[c].index \in Nat
          /\ MoveEnd(c) <= ClaimedTo(c)
          /\ MovedTo(c) = IF pc[c] = "empty" THEN MoveEnd(c) ELSE found[c].index
      BY <1>0, <1>1, ClaimFacts, MoveEnds, FoundTypes DEF MoveEnd
    <3> QED BY <2>1, <3>1
  <2>3. PICK a \in Nat, n \in Nat, l \in Nat :
           /\ a = found[c].first /\ n = Len(found[c].out) /\ l = ticket[c].actual - n
           /\ a + n = MovedTo(c) /\ ClaimedTo(c) - MovedTo(c) = l /\ n + l = ticket[c].actual
    <3>1. /\ found[c].first + Len(found[c].out) = MovedTo(c)
          /\ found[c].first + ticket[c].actual = ClaimedTo(c)
      BY DEF MovedTo, ClaimedTo
    <3>2. /\ ticket[c].actual - Len(found[c].out) \in Nat
          /\ ClaimedTo(c) - MovedTo(c) = ticket[c].actual - Len(found[c].out)
          /\ Len(found[c].out) + (ticket[c].actual - Len(found[c].out)) = ticket[c].actual
      BY <2>1, <2>2, <3>1
    <3> QED BY <2>1, <3>1, <3>2
  <2>4. Run(a, n) \o Run(a + n, l) = Run(a, n + l)
    BY RunsJoin DEF Run
  <2>5. Holds(c) = found[c].out \o Run(MovedTo(c), ClaimedTo(c) - MovedTo(c))
    BY <1>1 DEF Holds, Claimants, Run
  <2> QED BY <1>1, <2>1, <2>3, <2>4, <2>5
<1>2. CASE c \notin Claimants
  BY <1>2 DEF Holds, Claimants
<1> QED BY <1>1, <1>2

Hand == [c \in Consumers |-> Holds(c)]

LEMMA FifoAtFirst == Init => AsFifo!Init
<1> SUFFICES ASSUME Init PROVE AsFifo!Init
  OBVIOUS
<1>1. /\ tailIndex = 0 /\ headIndex = 0
      /\ \A c \in Consumers : pc[c] = "idle"
  BY DEF Init
<1>2. [i \in 1 .. tailIndex - headIndex |-> headIndex + i] = <<>>
  BY <1>1
<1>3. \A c \in Consumers : Holds(c) = <<>>
  BY <1>1 DEF Holds
<1> QED BY <1>1, <1>2, <1>3 DEF AsFifo!Init

\* The elements of one round of the circle are the most there can be.
LEMMA CircleBounds ==
  ASSUME IInv, ppc = "commit"
  PROVE  tailIndex + batch.count - headIndex <= BlockSize * IndexSize
<1>0. TypeOK /\ TicketInv /\ BatchRight /\ RingRight
  BY LayoutParts DEF IInv
<1>1. /\ tailIndex \in Nat /\ headIndex \in Nat /\ headIndex <= tailIndex
      /\ Latest \in Nat /\ batch.count \in Nat /\ batch.count > 0
      /\ Latest = Pos(tailIndex + batch.count - 1) /\ Pos(headIndex) \in Nat
  BY <1>0, Where, AllThere
<1>2. PICK last \in Nat : last = tailIndex + batch.count - 1 /\ headIndex <= last
  BY <1>1
<1>3. Pos(headIndex) <= Latest
  BY <1>1, <1>2, PosMono
<1>4. Live(Pos(headIndex))
  BY <1>1, <1>3, NeededHead DEF Live
<1>5. Latest - Pos(headIndex) + 1 <= IndexSize
  <2>1. /\ Latest - Pos(headIndex) + 1 <= Cardinality(Own) /\ Cardinality(Own) \in Nat
        /\ Cardinality(Own) <= IndexSize /\ IndexSize \in Nat
    BY <1>0, <1>1, <1>4, LivesFit, OwnIsFinite, SizeAssumption
  <2> QED BY <1>1, <2>1
<1>6. /\ Begin(Pos(headIndex)) <= headIndex /\ Begin(Pos(headIndex)) \in Int
      /\ last < Begin(Latest) + BlockSize /\ Begin(Latest) \in Int
  BY <1>1, <1>2, Index
<1>7. PICK h \in Nat, l \in Nat : h = Pos(headIndex) /\ l = Latest /\ l - h + 1 <= IndexSize /\ h <= l
  BY <1>1, <1>3, <1>5
<1>8. Begin(l) + BlockSize - Begin(h) <= BlockSize * IndexSize
  <2>1. BlockSize \in Nat /\ IndexSize \in Nat
    BY SizeAssumption
  <2>2. PICK m \in Nat : m = l - h + 1 /\ l = h + m - 1 /\ m <= IndexSize
    BY <1>7
  <2>3. BlockSize * l + BlockSize - BlockSize * h = BlockSize * m
    <3>1. BlockSize * (h + m - 1) = BlockSize * h + BlockSize * m - BlockSize
      BY <2>1
    <3>2. BlockSize * h \in Int /\ BlockSize * m \in Int
      BY <2>1
    <3> QED BY <2>1, <2>2, <3>1, <3>2
  <2>4. BlockSize * m <= BlockSize * IndexSize
    <3>1. PICK d \in Nat : IndexSize = m + d
      <4>1. IndexSize - m \in Nat /\ IndexSize = m + (IndexSize - m)
        BY <2>1, <2>2
      <4> QED BY <4>1
    <3>2. BlockSize * (m + d) = BlockSize * m + BlockSize * d
      BY <2>1
    <3>3. BlockSize * d \in Nat /\ BlockSize * m \in Nat
      BY <2>1
    <3> QED BY <3>1, <3>2, <3>3
  <2> QED BY <2>3, <2>4 DEF Begin
<1>9. BlockSize * IndexSize \in Int /\ BlockSize \in Nat
  BY SizeAssumption
<1>10. \A t \in Nat, hd \in Nat, b1 \in Int, b2 \in Int, s \in Nat, x \in Int :
          b1 <= hd /\ t < b2 + s /\ b2 + s - b1 <= x => t + 1 - hd <= x
  OBVIOUS
<1>11. last + 1 - headIndex <= BlockSize * IndexSize
  BY <1>1, <1>6, <1>7, <1>8, <1>9, <1>10
<1> QED BY <1>1, <1>2, <1>11

LEMMA CommitPuts ==
  ASSUME IInv, IInv', Commit
  PROVE  AsFifo!Next
<1>0. /\ TypeOK /\ TicketInv /\ BatchRight
      /\ tailIndex \in Nat /\ headIndex \in Nat /\ headIndex <= tailIndex
  BY Where, LayoutParts DEF IInv
<1>1. /\ ppc = "commit" /\ tailIndex' = tailIndex + batch.count /\ headIndex' = headIndex
      /\ UNCHANGED consumer
  BY DEF Commit
<1>2. batch.count \in Nat /\ batch.count > 0
  BY <1>0, <1>1, AllThere
<1>3. PICK h \in Nat, n \in Nat, k \in Nat :
         /\ h = headIndex /\ n = tailIndex - headIndex /\ k = batch.count /\ k > 0
         /\ h + n = tailIndex /\ tailIndex' - headIndex' = n + k
  <2>1. /\ tailIndex - headIndex \in Nat /\ headIndex + (tailIndex - headIndex) = tailIndex
        /\ tailIndex' - headIndex' = (tailIndex - headIndex) + batch.count
    BY <1>0, <1>1, <1>2
  <2> QED BY <1>0, <1>2, <2>1
<1>4. n + k <= BlockSize * IndexSize /\ BlockSize * IndexSize \in Int
  <2>1. tailIndex + batch.count - headIndex <= BlockSize * IndexSize
    BY <1>1, CircleBounds
  <2>2. tailIndex + batch.count - headIndex = n + k
    BY <1>0, <1>2, <1>3
  <2> QED BY <2>1, <2>2, SizeAssumption
<1>5. Run(h, n) \o Run(h + n, k) = Run(h, n + k) /\ Len(Run(h, n)) = n
  BY RunsJoin, RunTake DEF Run
<1>6. Hand' = Hand
  <2>1. \A c \in Consumers : Holds(c)' = Holds(c)
    BY <1>1 DEF Holds, MovedTo, ClaimedTo, consumer
  <2> QED BY <2>1 DEF Hand
<1>7. /\ [i \in 1 .. tailIndex - headIndex |-> headIndex + i] = Run(h, n)
      /\ [i \in 1 .. tailIndex - headIndex |-> headIndex + i]' = Run(h, n + k)
  BY <1>1, <1>3 DEF Run
<1>8. [i \in 1 .. k |-> tailIndex + i] = Run(h + n, k) /\ tailIndex' = tailIndex + k
  BY <1>1, <1>3 DEF Run
<1>9. AsFifo!Put(k)
  BY <1>5, <1>6, <1>7, <1>8 DEF AsFifo!Put, Hand
<1>10. k \in 1 .. BlockSize * IndexSize - Len(Run(h, n))
  BY <1>3, <1>4, <1>5
<1> QED BY <1>7, <1>9, <1>10 DEF AsFifo!Next

\* What the others hold.
LEMMA HoldsOfOthers ==
  ASSUME TypeOK, NEW c \in Consumers, Consumer(c)
  PROVE  /\ tailIndex' = tailIndex
         /\ \A d \in Consumers \ {c} : Holds(d)' = Holds(d)
<1>1. \A d \in Consumers : d # c =>
         pc'[d] = pc[d] /\ MovedTo(d)' = MovedTo(d) /\ ClaimedTo(d)' = ClaimedTo(d)
         /\ found'[d] = found[d]
  BY ClaimsOfOthers
<1> QED BY <1>1, ProducerStays DEF Holds

\* A claim takes the oldest messages.
LEMMA ClaimTakes ==
  ASSUME IInv, IInv', NEW c \in Consumers, Claim(c)
  PROVE  AsFifo!Next
<1>0. /\ TypeOK /\ TicketInv /\ ClaimRight /\ HeldRight /\ HeldRight'
      /\ tailIndex \in Nat /\ headIndex \in Nat /\ headIndex <= tailIndex
  <2>1. IInv' => HeldRight'
    BY HeldRuns, PTL
  <2> QED BY <2>1, HeldRuns, Where, LayoutParts DEF IInv
<1>1. /\ c \notin Claimants /\ Claimants' = Claimants \cup {c}
      /\ found'[c].first = headIndex
      /\ ticket[c].actual \in Nat /\ ticket[c].actual > 0
      /\ ticket'[c].actual = ticket[c].actual
      /\ headIndex' = headIndex + ticket[c].actual /\ headIndex' <= tailIndex
  BY <1>0, ClaimsAt
<1>2. tailIndex' = tailIndex /\ \A d \in Consumers \ {c} : Holds(d)' = Holds(d)
  BY <1>0, HoldsOfOthers DEF Consumer
<1>3. PICK h \in Nat, n \in Nat, a \in Nat :
         /\ h = headIndex /\ n = tailIndex - headIndex /\ a = ticket[c].actual
         /\ a > 0 /\ a <= n /\ headIndex' = h + a /\ tailIndex' - headIndex' = n - a
         /\ tailIndex' = tailIndex
  <2>1. /\ tailIndex - headIndex \in Nat /\ ticket[c].actual <= tailIndex - headIndex
        /\ tailIndex' - headIndex' = (tailIndex - headIndex) - ticket[c].actual
    BY <1>0, <1>1, <1>2
  <2> QED BY <1>0, <1>1, <1>2, <2>1
<1>4. Holds(c) = <<>> /\ Holds(c)' = Run(h, a)
  BY <1>0, <1>1, <1>3 DEF HeldRight
<1>5. /\ SubSeq(Run(h, n), 1, a) = Run(h, a)
      /\ SubSeq(Run(h, n), a + 1, n) = Run(h + a, n - a)
      /\ Len(Run(h, n)) = n
  <2>1. a <= n
    BY <1>3
  <2> QED BY <2>1, RunTake, Zenon
<1>6. Hand' = [Hand EXCEPT ![c] = Run(h, a)] /\ Hand[c] = <<>>
  BY <1>2, <1>4 DEF Hand
<1>7. /\ [i \in 1 .. tailIndex - headIndex |-> headIndex + i] = Run(h, n)
      /\ [i \in 1 .. tailIndex - headIndex |-> headIndex + i]' = Run(h + a, n - a)
  BY <1>3 DEF Run
<1>8. AsFifo!Take(c, a)
  BY <1>3, <1>5, <1>6, <1>7 DEF AsFifo!Take, Hand
<1>9. a \in 1 .. Len(Run(h, n))
  BY <1>3, <1>5
<1> QED BY <1>7, <1>8, <1>9 DEF AsFifo!Next

\* Everything else is internal to the sub-queue.
LEMMA FifoSame ==
  ASSUME UNCHANGED <<tailIndex, headIndex>>, \A c \in Consumers : Holds(c)' = Holds(c)
  PROVE  UNCHANGED AsFifo!vars
<1>1. Hand' = Hand
  BY DEF Hand
<1> QED BY <1>1 DEF AsFifo!vars, Hand

\* With its last element moved out, a call returns with all it claimed.
LEMMA ReturnGives ==
  ASSUME IInv, IInv', NEW c \in Consumers, SetEmpty(c), MovedTo(c) = ClaimedTo(c)
  PROVE  AsFifo!Next
<1>0. /\ TypeOK /\ TicketInv /\ ClaimRight /\ HeldRight /\ HeldRight'
  <2>1. IInv' => HeldRight'
    BY HeldRuns, PTL
  <2> QED BY <2>1, HeldRuns, LayoutParts DEF IInv
<1>1. c \in Claimants /\ Claimants' = Claimants \ {c} /\ headIndex' = headIndex
  BY <1>0, SetEmptyDoes
<1>2. tailIndex' = tailIndex /\ \A d \in Consumers \ {c} : Holds(d)' = Holds(d)
  BY <1>0, HoldsOfOthers DEF Consumer
<1>3. ticket[c].actual \in Nat /\ ticket[c].actual > 0
  BY <1>0, <1>1, ClaimFacts, FoundTypes
<1>4. Holds(c) = Run(found[c].first, ticket[c].actual) /\ Holds(c)' = <<>>
  BY <1>0, <1>1 DEF HeldRight
<1>5. Holds(c) # <<>>
  <2>1. 1 \in DOMAIN Run(found[c].first, ticket[c].actual)
    BY <1>3 DEF Run
  <2> QED BY <1>4, <2>1
<1>6. Hand' = [Hand EXCEPT ![c] = <<>>] /\ Hand[c] # <<>>
  BY <1>2, <1>4, <1>5 DEF Hand
<1>7. AsFifo!Return(c)
  BY <1>1, <1>2, <1>6 DEF AsFifo!Return, Hand
<1> QED BY <1>7 DEF AsFifo!Next

LEMMA FifoStep ==
  ASSUME IInv, IInv', [Next]_vars
  PROVE  [AsFifo!Next]_AsFifo!vars
<1>0. TypeOK /\ TicketInv /\ LayoutInv /\ ClaimRight /\ BatchRight /\ CircleRight
      /\ HeldRight /\ HeldRight'
  <2>1. IInv' => HeldRight'
    BY HeldRuns, PTL
  <2> QED BY <2>1, HeldRuns, LayoutParts DEF IInv
<1>1. ASSUME UNCHANGED <<tailIndex, headIndex, consumer>>
      PROVE  UNCHANGED AsFifo!vars
  <2>1. \A c \in Consumers : Holds(c)' = Holds(c)
    BY <1>1 DEF Holds, MovedTo, ClaimedTo, consumer
  <2> QED BY <1>1, <2>1, FifoSame
<1>2. CASE Producer
  <2>1. CASE Commit
    BY <2>1, CommitPuts
  <2>2. CASE ~Commit
    <3>1. UNCHANGED <<tailIndex, headIndex, consumer>>
      BY <1>2, <2>2, ProducerCases DEF EnqueueStart, ReuseBlock, NeedBlock, GoesOn, Fails,
         Takes, StoreBase, StoreBlock, StoreFront, WriteElements, counters
    <3> QED BY <1>1, <3>1
  <2> QED BY <2>1, <2>2
<1>3. CASE Others
  BY <1>1, <1>3, OthersSame
<1>4. CASE Destroy
  BY <1>1, <1>4 DEF Destroy, counters
<1>5. CASE UNCHANGED vars
  BY <1>1, <1>5 DEF vars, counters
<1>6. ASSUME NEW c \in Consumers, Consumer(c)
      PROVE  [AsFifo!Next]_AsFifo!vars
  <2>0. tailIndex' = tailIndex /\ \A d \in Consumers \ {c} : Holds(d)' = Holds(d)
    BY <1>0, <1>6, HoldsOfOthers
  <2>1. ASSUME headIndex' = headIndex, c \in Claimants' <=> c \in Claimants,
               c \in Claimants => found'[c].first = found[c].first
                                  /\ ticket'[c].actual = ticket[c].actual
        PROVE  UNCHANGED AsFifo!vars
    <3>1. Holds(c)' = Holds(c)
      BY <1>0, <2>1 DEF HeldRight
    <3> QED BY <2>0, <2>1, <3>1, FifoSame
  <2>2. CASE Early(c)
    BY <1>0, <2>1, <2>2, EarlyDoes
  <2>3. CASE Claim(c)
    BY <2>3, ClaimTakes
  <2>4. CASE LooksUp(c)
    BY <1>0, <2>1, <2>4, LookupDoes
  <2>5. CASE MoveElements(c)
    BY <1>0, <2>1, <2>5, MoveDoes
  <2>6. CASE SetEmpty(c)
    <3>1. CASE MovedTo(c) = ClaimedTo(c)
      BY <2>6, <3>1, ReturnGives
    <3>2. CASE MovedTo(c) # ClaimedTo(c)
      BY <1>0, <2>1, <2>6, <3>2, SetEmptyDoes
    <3> QED BY <3>1, <3>2
  <2> QED BY <1>6, <2>2, <2>3, <2>4, <2>5, <2>6 DEF Consumer, Early, LooksUp
<1> QED BY <1>2, <1>3, <1>4, <1>5, <1>6, NextCases

\* The circle of blocks is a bounded FIFO, whatever the sizes and the number of
\* consumers: each call takes the oldest elements, in order, and returns with all of
\* them, whatever entries are overwritten, blocks used again and bulk calls undone.
THEOREM ExplicitIsFifo == Spec => ImplementsFifo
<1>1. Spec => []IInv
  BY ExplicitInvariant, PTL DEF IInv
<1>2. IInv /\ IInv' /\ [Next]_vars => [AsFifo!Next]_AsFifo!vars
  BY FifoStep
<1> QED BY FifoAtFirst, <1>1, <1>2, PTL DEF Spec, ImplementsFifo, AsFifo!Spec

-----------------------------------------------------------------------------
(* The destructor *)

\* When every call has returned, what is in use is what the head has not passed.
LEMMA WhenReturned ==
  ASSUME IInv, AllReturned
  PROVE  /\ Claimants = {} /\ ppc = "idle" /\ batch.count = 0 /\ batch.blocks = 0
         /\ Latest = Started - 1 /\ Started \in Nat
         /\ \A i : NotEmptied(i) <=> i >= headIndex
         /\ \A i : Present(i) <=> i \in headIndex .. tailIndex - 1
         /\ \A p \in Int : Needed(p) <=> Pos(headIndex) <= p
<1>0. /\ TypeOK /\ TicketInv /\ BatchRight /\ headIndex \in Nat /\ Pos(headIndex) \in Nat
      /\ Started \in Nat
  BY Where, LayoutParts DEF IInv
<1>1. Claimants = {} /\ ppc = "idle" /\ ~InBatch
  BY DEF AllReturned, Claimants, InBatch
<1>2. batch.count = 0 /\ batch.blocks = 0 /\ Latest = Started - 1
  BY <1>0, <1>1, IdleBatch
<1>3. /\ \A i : NotEmptied(i) <=> i >= headIndex
      /\ \A i : Present(i) <=> i \in headIndex .. tailIndex - 1
  BY <1>1 DEF NotEmptied, Present
<1>4. ASSUME NEW p \in Int PROVE Needed(p) <=> Pos(headIndex) <= p
  <2>1. ASSUME Needed(p) PROVE Pos(headIndex) <= p
    <3>1. PICK i \in 0 .. headIndex : NotEmptied(i) /\ Pos(i) <= p
      BY <2>1 DEF Needed
    <3>2. i = headIndex
      BY <1>0, <1>3, <3>1
    <3> QED BY <3>1, <3>2
  <2>2. Pos(headIndex) <= p => Needed(p)
    BY <1>0, NeededHead
  <2> QED BY <2>1, <2>2
<1> QED BY <1>0, <1>1, <1>2, <1>3, <1>4

\* The block of the head is the one that its entry is looked up for.
LEMMA HalfDequeuedIs ==
  ASSUME IInv, AllReturned, Cardinality(Own) = slotsUsed, HalfDequeuedIsFound,
         Cell(headIndex) # 0
  PROVE  Live(Pos(headIndex)) /\ HalfDequeuedBlock = At(Pos(headIndex))
<1>0. /\ TypeOK /\ TicketInv /\ BatchRight /\ SlotsRight /\ BasesRight /\ RingRight
      /\ ppc = "idle" /\ Latest = Started - 1 /\ Started \in Nat /\ Latest \in Int
      /\ headIndex \in Nat /\ tailIndex \in Nat /\ headIndex <= tailIndex
      /\ tailIndex <= Begin(Started) /\ Pos(headIndex) \in Nat
      /\ BlockSize \in Nat /\ BlockSize > 1 /\ IndexSize \in Nat /\ IndexSize > 1
  BY WhenReturned, LayoutParts, Where, SizeAssumption DEF IInv
<1>1. PICK h \in Nat : h = Pos(headIndex)
  BY <1>0
<1>2. /\ Begin(h) < headIndex /\ headIndex < Begin(h) + BlockSize /\ Begin(h) \in Nat
      /\ headIndex = Begin(h) + Cell(headIndex)
  <2>1. Cell(headIndex) \in Nat
    BY <1>0, Index DEF Cells
  <2> QED BY <1>0, <1>1, <2>1, Index, Begins
<1>3. h < Started
  <2>1. ASSUME Started <= h PROVE FALSE
    <3>1. Begin(Started) \in Int
      BY <1>0, Begins
    <3>2. Begin(Started) <= Begin(h)
      <4>1. CASE Started = h
        BY <3>1, <4>1
      <4>2. CASE Started # h
        <5>1. Begin(Started) + BlockSize <= Begin(h)
          BY <1>0, <2>1, <4>2, BeginsGrow
        <5> QED BY <1>0, <1>2, <3>1, <5>1
      <4> QED BY <4>1, <4>2
    <3> QED BY <1>0, <1>2, <3>1, <3>2
  <2> QED BY <1>0, <2>1
<1>4. Live(h) /\ h <= Latest
  BY <1>0, <1>1, <1>3, NeededHead DEF Live
<1>5. base[h % IndexSize] = Begin(h) /\ h % IndexSize \in Entries
  BY <1>0, <1>4, EntryIs DEF RingRight, Live, Begin
<1>6. tailBlock # Null
  BY <1>0, <1>4 DEF RingRight
<1> DEFINE entry(k) == (nextFront - slotsUsed + k) % IndexSize
           K == {k \in Entries : base[entry(k)] + BlockSize >= headIndex}
           e == entry(Min(K))
<1>7. nextFront \in Int /\ slotsUsed \in Int /\ Entries \in SUBSET Nat
  BY <1>0 DEF TypeOK, Entries
<1>8. \A k \in Int : entry(k) \in Entries
  <2>1. ASSUME NEW k \in Int PROVE entry(k) \in Entries
    <3>1. nextFront - slotsUsed + k \in Int
      BY <1>7
    <3> QED BY <3>1, EntryIs
  <2> QED BY <2>1
<1>9. \E k \in Entries : entry(k) = h % IndexSize
  <2>1. PICK a \in Int, q \in Int : a = nextFront - slotsUsed /\ q = h - a
    BY <1>7
  <2>2. q % IndexSize \in Entries
    BY EntryIs
  <2>3. ((q % IndexSize) + a) % IndexSize = (q + a) % IndexSize
    BY EntryPlus
  <2>4. q + a = h
    <3>1. h \in Int
      OBVIOUS
    <3> QED BY <2>1, <3>1
  <2>6. a + (q % IndexSize) = (q % IndexSize) + a
    <3>1. PICK b \in Int : b = q % IndexSize
      BY <2>2 DEF Entries
    <3>2. a + b = b + a
      BY <2>1, <3>1
    <3> QED BY <3>1, <3>2, Zenon
  <2>5. entry(q % IndexSize) = h % IndexSize
    BY <2>1, <2>3, <2>4, <2>6
  <2> QED BY <2>2, <2>5
<1>10. K \in SUBSET Nat /\ K # {}
  <2>1. PICK k \in Entries : entry(k) = h % IndexSize
    BY <1>9
  <2>2. base[entry(k)] + BlockSize >= headIndex
    BY <1>0, <1>2, <1>5, <2>1
  <2>3. k \in K
    BY <2>2
  <2>4. K \in SUBSET Nat
    BY <1>7
  <2> QED BY <2>3, <2>4
<1>11. Min(K) \in K /\ \A m \in K : Min(K) <= m
  BY <1>10, LeastIs
<1>12. HalfDequeuedEntry = e
  BY DEF HalfDequeuedEntry
<1>13. e \in Entries /\ base[e] + BlockSize >= headIndex /\ base[e] < headIndex /\ base[e] \in Nat
  <2>1. Min(K) \in Int
    BY <1>10, <1>11
  <2>2. e \in Entries
    BY <1>8, <2>1
  <2>3. base[e] + BlockSize >= headIndex
    BY <1>11
  <2>4. base[e] < headIndex
    BY <1>6, <1>12 DEF HalfDequeuedIsFound
  <2>5. base[e] \in Nat
    BY <2>2, <1>0 DEF TypeOK
  <2> QED BY <2>2, <2>3, <2>4, <2>5
<1> HIDE DEF e
<1>14. CASE Matches(e)
  <2>1. PICK p \in Int : base[e] = Begin(p) /\ p % IndexSize = e
    <3>1. PICK q \in Int, r \in 0 .. BlockSize - 1 :
             /\ base[e] = BlockSize * q + r /\ base[e] % BlockSize = r
             /\ base[e] \div BlockSize = q
      <4>1. PICK a \in Int : a = base[e]
        BY <1>13
      <4>2. BlockSize > 0
        BY <1>0
      <4>3. \E q \in Int, r \in 0 .. BlockSize - 1 :
               a = BlockSize * q + r /\ a % BlockSize = r /\ a \div BlockSize = q
        BY <1>0, <4>1, <4>2, Division
      <4> QED BY <4>1, <4>3, Zenon
    <3>2. r = 0 /\ q % IndexSize = e
      BY <1>14, <3>1 DEF Matches
    <3>3. base[e] = BlockSize * q
      BY <1>0, <3>1, <3>2
    <3> QED BY <3>2, <3>3 DEF Begin
  <2>2. headIndex # Begin(p) + BlockSize
    <3>1. ASSUME headIndex = Begin(p) + BlockSize PROVE FALSE
      <4>1. headIndex = Begin(p + 1) /\ p + 1 \in Int
        BY <2>1, <3>1, Begins
      <4>2. Begin(p + 1) <= headIndex /\ headIndex < Begin(p + 1) + BlockSize
        BY <1>0, <4>1
      <4>3. Cell(headIndex) = headIndex - Begin(p + 1)
        BY <1>0, <4>1, <4>2, PosIs
      <4> QED BY <1>0, <4>1, <4>3
    <3> QED BY <3>1
  <2>3. Begin(p) <= headIndex /\ headIndex < Begin(p) + BlockSize
    BY <1>0, <1>13, <2>1, <2>2
  <2>4. Pos(headIndex) = p
    BY <1>0, <2>3, PosIs
  <2>5. e = h % IndexSize
    BY <1>1, <2>1, <2>4
  <2> QED BY <1>0, <1>1, <1>4, <1>12, <2>5 DEF HalfDequeuedBlock, At
\* An entry that was never written would come after entry 0, which is found first.
<1>15. CASE ~Matches(e)
  <2>1. base[e] = 0 /\ e > Latest
    BY <1>0, <1>13, <1>15 DEF BasesRight
  <2>2. e \in Nat /\ e < IndexSize /\ Started <= e /\ Started < IndexSize
    <3>1. e \in Nat /\ e < IndexSize
      BY <1>0, <1>13 DEF Entries
    <3> QED BY <1>0, <2>1, <3>1
  <2>3. h = 0
    <3>1. headIndex <= BlockSize
      BY <1>0, <1>13, <2>1
    <3>2. ASSUME h > 0 PROVE FALSE
      <4>1. Begin(0) + BlockSize <= Begin(h) /\ Begin(0) = 0
        BY <1>0, <3>2, BeginsGrow DEF Begin
      <4> QED BY <1>0, <1>2, <3>1, <4>1
    <3> QED BY <3>2
  <2>4. nextFront = Started
    <3>1. Started \in Entries /\ Latest + 1 = Started
      BY <1>0, <2>2 DEF Entries
    <3>2. nextFront = (Latest + 1) % IndexSize
      BY <1>0 DEF SlotsRight
    <3> QED BY <1>0, <3>1, <3>2, EntryIs
  <2>5. slotsUsed = Started
    <3>1. Latest - h + 1 <= Cardinality(Own)
      BY <1>0, <1>4, LivesFit
    <3>2. slotsUsed <= Latest + 1
      BY <1>0 DEF SlotsRight
    <3> QED BY <1>0, <1>7, <2>3, <3>1, <3>2
  <2>6. entry(0) = 0 /\ 0 \in Entries
    <3>1. 0 \in Entries /\ nextFront - slotsUsed + 0 = 0
      BY <1>0, <2>4, <2>5 DEF Entries
    <3> QED BY <3>1, EntryIs
  <2>7. base[0] = 0
    <3>1. h % IndexSize = 0 /\ Begin(h) = 0
      BY <1>0, <2>3, <2>6, EntryIs DEF Begin
    <3> QED BY <1>5, <3>1
  <2>8. 0 \in K
    <3>1. base[entry(0)] + BlockSize >= headIndex
      BY <1>0, <1>13, <2>1, <2>6, <2>7
    <3> QED BY <2>6, <3>1
  <2>9. Min(K) = 0
    <3>1. Min(K) \in Nat /\ Min(K) <= 0
      BY <1>10, <1>11, <2>8
    <3> QED BY <3>1
  <2>10. e = 0
    BY <2>6, <2>9 DEF e
  <2> QED BY <1>0, <1>3, <2>2, <2>10
<1> QED BY <1>1, <1>4, <1>14, <1>15

\* The cells of a block in use that are destroyed are those of waiting elements.
LEMMA DoomedCells ==
  ASSUME IInv, AllReturned, Cardinality(Own) = slotsUsed, HalfDequeuedIsFound,
         NEW p \in Nat, Live(p), NEW j \in Cells
  PROVE  j \in FirstLeft(At(p)) .. EndOf(At(p)) - 1 <=> Begin(p) + j \in headIndex .. tailIndex - 1
<1>0. /\ TypeOK /\ TicketInv /\ RingRight /\ Latest = Started - 1 /\ Started \in Nat
      /\ headIndex \in Nat /\ tailIndex \in Nat /\ headIndex <= tailIndex
      /\ tailIndex <= Begin(Started) /\ Begin(Started) < tailIndex + BlockSize
      /\ Pos(headIndex) \in Nat /\ Pos(headIndex) <= p /\ p \in 0 .. Latest
      /\ BlockSize \in Nat /\ BlockSize > 1 /\ j \in Nat /\ j < BlockSize
      /\ Begin(p) \in Nat /\ Begin(Started) \in Int
  BY WhenReturned, LayoutParts, Where, StartedIs, Begins, SizeAssumption DEF IInv, Live, Cells
<1>1. At(p) \in Own /\ At(p) # Null
  <2>1. At(p) \in Own
    BY <1>0 DEF RingRight
  <2> QED BY <2>1, PointerAssumption DEF Own
<1>2. /\ headIndex = Begin(Pos(headIndex)) + Cell(headIndex) /\ Cell(headIndex) \in Nat
      /\ Cell(headIndex) < BlockSize /\ Begin(Pos(headIndex)) \in Int
  BY <1>0, Index DEF Cells
<1>3. FirstLeft(At(p)) \in Nat /\ (j >= FirstLeft(At(p)) <=> Begin(p) + j >= headIndex)
  <2>1. CASE p = Pos(headIndex)
    <3>1. FirstLeft(At(p)) = Cell(headIndex)
      <4>1. CASE Cell(headIndex) = 0
        BY <1>1, <4>1 DEF FirstLeft, HalfDequeuedBlock
      <4>2. CASE Cell(headIndex) # 0
        BY <2>1, <4>2, HalfDequeuedIs DEF FirstLeft
      <4> QED BY <4>1, <4>2
    <3> QED BY <1>0, <1>2, <2>1, <3>1
  <2>2. CASE p # Pos(headIndex)
    <3>1. At(p) # HalfDequeuedBlock
      <4>1. CASE Cell(headIndex) = 0
        BY <1>1, <4>1 DEF HalfDequeuedBlock
      <4>2. CASE Cell(headIndex) # 0
        <5>1. Live(Pos(headIndex)) /\ HalfDequeuedBlock = At(Pos(headIndex))
          BY <4>2, HalfDequeuedIs
        <5>2. Pos(headIndex) \in 0 .. Latest
          BY <5>1 DEF Live
        <5> QED BY <1>0, <2>2, <5>1, <5>2 DEF RingRight
      <4> QED BY <4>1, <4>2
    <3>2. FirstLeft(At(p)) = 0
      BY <3>1 DEF FirstLeft
    <3>3. Begin(Pos(headIndex)) + BlockSize <= Begin(p)
      <4>1. Pos(headIndex) < p
        BY <1>0, <2>2
      <4> QED BY <1>0, <4>1, BeginsGrow
    <3> QED BY <1>0, <1>2, <3>2, <3>3
  <2> QED BY <2>1, <2>2
<1>4. EndOf(At(p)) \in Nat /\ (j < EndOf(At(p)) <=> Begin(p) + j < tailIndex)
  <2>1. CASE p = Latest
    <3>1. tailBlock = At(p)
      <4>1. Live(Latest)
        BY <1>0, <2>1
      <4> QED BY <1>0, <2>1, <4>1 DEF RingRight
    <3>2. Begin(p + 1) = Begin(p) + BlockSize /\ p + 1 = Started
      BY <1>0, <2>1, Begins
    <3>3. Begin(p) < tailIndex /\ tailIndex <= Begin(p) + BlockSize
      BY <1>0, <3>2
    <3>4. CASE tailIndex = Begin(p) + BlockSize
      <4>1. p + 1 \in Int /\ Begin(p + 1) <= tailIndex /\ tailIndex < Begin(p + 1) + BlockSize
        BY <1>0, <3>2, <3>4
      <4>2. Cell(tailIndex) = tailIndex - Begin(p + 1)
        BY <1>0, <4>1, PosIs
      <4>3. Cell(tailIndex) = 0
        BY <1>0, <3>2, <3>4, <4>2
      <4>4. EndOf(At(p)) = BlockSize
        BY <4>3 DEF EndOf
      <4> QED BY <1>0, <3>4, <4>4
    <3>5. CASE tailIndex # Begin(p) + BlockSize
      <4>1. tailIndex < Begin(p) + BlockSize /\ Begin(p) <= tailIndex
        BY <1>0, <3>3, <3>5
      <4>2. Cell(tailIndex) = tailIndex - Begin(p)
        BY <1>0, <4>1, PosIs
      <4>3. Cell(tailIndex) # 0 /\ Cell(tailIndex) \in Nat
        BY <1>0, <3>3, <4>2
      <4>4. EndOf(At(p)) = Cell(tailIndex)
        BY <3>1, <4>3 DEF EndOf
      <4> QED BY <1>0, <4>2, <4>3, <4>4
    <3> QED BY <3>4, <3>5
  <2>2. CASE p # Latest
    <3>1. Latest \in 0 .. Latest /\ Live(Latest)
      BY <1>0, LiveUp
    <3>2. At(p) # tailBlock
      BY <1>0, <2>2, <3>1 DEF RingRight
    <3>3. EndOf(At(p)) = BlockSize
      BY <3>2 DEF EndOf
    <3>4. Begin(p) + BlockSize < tailIndex
      <4>1. p < Latest /\ Latest \in Int /\ Latest + 1 = Started
        BY <1>0, <2>2
      <4>2. PICK l \in Int : l = Latest
        BY <4>1
      <4>3. Begin(p) + BlockSize <= Begin(l)
        BY <4>1, <4>2, <1>0, BeginsGrow
      <4>4. Begin(l) \in Int /\ Begin(l + 1) = Begin(l) + BlockSize
        BY <4>2, Begins
      <4>5. Begin(p) \in Int
        BY <1>0, Begins
      <4> QED BY <1>0, <4>1, <4>2, <4>3, <4>4, <4>5
    <3> QED BY <1>0, <3>3, <3>4
  <2> QED BY <2>1, <2>2
<1>5. j \in FirstLeft(At(p)) .. EndOf(At(p)) - 1 <=> j >= FirstLeft(At(p)) /\ j < EndOf(At(p))
  BY <1>0, <1>3, <1>4
<1>6. Begin(p) + j \in headIndex .. tailIndex - 1 <=>
         Begin(p) + j >= headIndex /\ Begin(p) + j < tailIndex
  BY <1>0
<1> QED BY <1>3, <1>4, <1>5, <1>6

LEMMA DestroysExactly ==
  ASSUME IInv
  PROVE  DestructorIsExact
<1> SUFFICES ASSUME AllReturned, Cardinality(Circle) = slotsUsed, HalfDequeuedIsFound
             PROVE  Doomed = {p \in Blocks \X Cells : elements[p[1]][p[2]] # NoMessage}
  BY DEF DestructorIsExact
<1>0. /\ TypeOK /\ TicketInv /\ RingRight /\ FlagsRight /\ ContentsRight /\ CircleRight
      /\ Latest = Started - 1 /\ Started \in Nat /\ batch.count = 0
      /\ headIndex \in Nat /\ tailIndex \in Nat /\ headIndex <= tailIndex
      /\ \A i : NotEmptied(i) <=> i >= headIndex
      /\ \A i : Present(i) <=> i \in headIndex .. tailIndex - 1
      /\ \A p \in Int : Needed(p) <=> Pos(headIndex) <= p
      /\ BlockSize \in Nat /\ BlockSize > 1
  BY WhenReturned, LayoutParts, Where, SizeAssumption DEF IInv
<1>1. Circle = Own /\ Cardinality(Own) = slotsUsed /\ Own \subseteq Blocks
  BY <1>0, CircleIsOwn DEF Own
\* A block in use still has an element.
<1>2. ASSUME NEW p \in Nat, Live(p) PROVE ~IsEmpty(At(p))
  <2>1. p \in 0 .. Latest /\ p < Started /\ Pos(headIndex) <= p
    BY <1>0, <1>2 DEF Live
  <2>2. emptyFlags[At(p)] = Emptied(p)
    BY <1>0, <1>2, <2>1 DEF FlagsRight
  <2>3. PICK j \in Cells : Begin(p) + j >= headIndex
    <3>1. BlockSize - 1 \in Cells
      BY <1>0 DEF Cells
    <3>2. headIndex < Begin(Pos(headIndex)) + BlockSize /\ Begin(Pos(headIndex)) \in Int
          /\ Pos(headIndex) \in Int
      BY <1>0, Index
    <3>3. Begin(Pos(headIndex)) <= Begin(p) /\ Begin(p) \in Int
      <4>1. Begin(p) \in Int
        BY Begins
      <4>2. CASE Pos(headIndex) = p
        BY <4>1, <4>2
      <4>3. CASE Pos(headIndex) # p
        <5>1. Begin(Pos(headIndex)) + BlockSize <= Begin(p)
          BY <2>1, <3>2, <4>3, BeginsGrow
        <5> QED BY <1>0, <3>2, <4>1, <5>1
      <4> QED BY <4>1, <4>2, <4>3
    <3>4. Begin(p) + (BlockSize - 1) >= headIndex
      BY <1>0, <3>2, <3>3
    <3> QED BY <3>1, <3>4
  <2>4. j \notin Emptied(p)
    BY <1>0, <2>3 DEF Emptied, Begin
  <2> QED BY <2>2, <2>4 DEF IsEmpty
<1>3. ASSUME NEW b \in Blocks, NEW j \in Cells, <<b, j>> \in Doomed
      PROVE  elements[b][j] # NoMessage
  <2>1. b \in Own /\ ~IsEmpty(b) /\ j \in FirstLeft(b) .. EndOf(b) - 1
    BY <1>1, <1>3 DEF Doomed
  <2>2. PICK p \in 0 .. Latest : Live(p) /\ b = At(p)
    BY <1>0, <2>1 DEF FlagsRight
  <2>3. p \in Nat
    BY <1>0
  <2>4. PICK i \in headIndex .. tailIndex - 1 : i = Begin(p) + j
    BY <1>1, <2>1, <2>2, <2>3, DoomedCells
  <2>5. Pos(i) = p /\ Cell(i) = j
    BY <2>3, <2>4, CellsOf
  <2>6. Present(i) /\ i \in 0 .. tailIndex + batch.count /\ i \in Nat
    BY <1>0, <2>4
  <2>7. elements[b][j] = i + 1
    BY <1>0, <2>2, <2>5, <2>6 DEF ContentsRight
  <2> QED BY <2>6, <2>7 DEF NoMessage
<1>4. ASSUME NEW b \in Blocks, NEW j \in Cells, elements[b][j] # NoMessage
      PROVE  <<b, j>> \in Doomed
  <2>1. PICK i \in 0 .. tailIndex + batch.count : Present(i) /\ b = At(Pos(i)) /\ j = Cell(i)
    BY <1>0, <1>4 DEF ContentsRight
  <2>2. i \in Int /\ i \in headIndex .. tailIndex - 1 /\ i \in Nat
    BY <1>0, <2>1
  <2>3. PICK p \in Nat : p = Pos(i) /\ i = Begin(p) + j
    BY <2>1, <2>2, PosOfNat, Index
  <2>4. Live(p)
    <3>1. p <= Latest
      BY <1>0, <2>2, <2>3, IndexBelow
    <3>2. Pos(headIndex) <= p
      BY <1>0, <2>2, <2>3, PosMono
    <3> QED BY <1>0, <2>3, <3>1, <3>2 DEF Live
  <2>5. j \in FirstLeft(b) .. EndOf(b) - 1
    BY <1>1, <2>1, <2>2, <2>3, <2>4, DoomedCells
  <2>6. b \in Own /\ ~IsEmpty(b)
    BY <1>0, <1>2, <2>1, <2>3, <2>4 DEF RingRight, Live
  <2> QED BY <1>1, <2>5, <2>6 DEF Doomed
<1>5. Doomed \subseteq Blocks \X Cells
  BY <1>1 DEF Doomed
<1>6. \A p \in Blocks \X Cells : p = <<p[1], p[2]>> /\ p[1] \in Blocks /\ p[2] \in Cells
  OBVIOUS
<1> QED BY <1>3, <1>4, <1>5, <1>6

\* The destructor destroys the elements that were put and not taken, and no others,
\* whichever entries and blocks were used again before.
THEOREM ExplicitDestructor == Spec => []DestructorIsExact
<1>1. Spec => []IInv
  BY ExplicitInvariant, PTL DEF IInv
<1>2. IInv => DestructorIsExact
  BY DestroysExactly
<1> QED BY <1>1, <1>2, PTL

=============================================================================
