---------------------------- MODULE ImplicitHash ----------------------------
(***************************************************************************)
(* How a thread that logs finds its own sub-queue, or gets one on its      *)
(* first message: get_or_add_implicit_producer in                          *)
(* include/concurrentqueue.h.  The lock-free hash table is keyed by thread *)
(* id; when it fills up one thread allocates a larger one, whose prev is   *)
(* the old one, and nothing is copied: a thread finds itself in an older   *)
(* table and then adds itself to the newest.  A new sub-queue also enters  *)
(* the list of producers, where the consumer looks for it.                 *)
(*                                                                         *)
(* Keys go from empty to a thread id and never change again, so a          *)
(* compare_exchange that loses its slot is the same as a load that finds   *)
(* the slot taken.                                                         *)
(***************************************************************************)
EXTENDS Integers, Sequences, FiniteSets

CONSTANTS
    Threads,            \* thread ids
    NoThread,           \* invalid_thread_id, the key of an empty slot
    InitialCapacity,    \* INITIAL_IMPLICIT_PRODUCER_HASH_SIZE; rtlog has 32
    HashedIds           \* values of hash_thread_id

ASSUME HashAssumption ==
    /\ IsFiniteSet(Threads) /\ NoThread \notin Threads
    /\ InitialCapacity \in Nat /\ InitialCapacity > 0
    /\ \E k \in 0 .. InitialCapacity : InitialCapacity = 2 ^ k
    /\ HashedIds \subseteq Nat

VARIABLES
    hashedId,           \* hash_thread_id of each thread: any, so threads may collide
    tables,             \* every ImplicitProducerHash allocated, the oldest first
    implicitProducerHash,       \* position in tables of the current one
    implicitProducerHashCount,
    resizeInProgress,   \* implicitProducerHashResizeInProgress
    producerCount,      \* sub-queues created; the n-th is producer n
    producerListTail,
    nextProducer,       \* ProducerBase::next of every producer
    pc,
    mainHash, hash, index, newCount, producer, prevTail,    \* locals
    mine                \* history: the producer a thread's calls returned

shared == <<tables, implicitProducerHash, implicitProducerHashCount, resizeInProgress>>
list == <<producerCount, producerListTail, nextProducer>>
searching == <<mainHash, hash, index>>
creating == <<newCount, producer, prevTail>>
vars == <<hashedId, shared, list, pc, searching, creating, mine>>

NoTable == 0        \* null pointers
NoProducer == 0

EmptyTable(capacity, prev) ==
    [capacity |-> capacity, prev |-> prev,
     key |-> [i \in 0 .. capacity - 1 |-> NoThread],
     value |-> [i \in 0 .. capacity - 1 |-> NoProducer]]

Init ==
    /\ hashedId \in [Threads -> HashedIds]
    /\ tables = <<EmptyTable(InitialCapacity, NoTable)>>
    /\ implicitProducerHash = 1 /\ implicitProducerHashCount = 0
    /\ resizeInProgress = FALSE
    /\ producerCount = 0 /\ producerListTail = NoProducer /\ nextProducer = <<>>
    /\ pc = [t \in Threads |-> "idle"]
    /\ mainHash = [t \in Threads |-> NoTable]
    /\ hash = [t \in Threads |-> NoTable]
    /\ index = [t \in Threads |-> 0]
    /\ newCount = [t \in Threads |-> 0]
    /\ producer = [t \in Threads |-> NoProducer]
    /\ prevTail = [t \in Threads |-> NoProducer]
    /\ mine = [t \in Threads |-> NoProducer]

-----------------------------------------------------------------------------
Goto(t, from, to) == pc[t] = from /\ pc' = [pc EXCEPT ![t] = to]

\* The call returns: its locals are gone.
ReturnFrom(t, step, value) ==
    /\ Goto(t, step, "idle")
    /\ mainHash' = [mainHash EXCEPT ![t] = NoTable]
    /\ hash' = [hash EXCEPT ![t] = NoTable]
    /\ index' = [index EXCEPT ![t] = 0]
    /\ newCount' = [newCount EXCEPT ![t] = 0]
    /\ producer' = [producer EXCEPT ![t] = NoProducer]
    /\ prevTail' = [prevTail EXCEPT ![t] = NoProducer]
    /\ mine' = IF value = NoProducer THEN mine ELSE [mine EXCEPT ![t] = value]

\* A thread's slot in table h is searched from here; index &= capacity - 1.
HomeSlot(t, h) == hashedId[t] % tables[h].capacity

\* Faulty variant: the search runs past the table's end.
BugSlotAfter(i, h) == i + 1

\* ++index, masked at the next probe.
SlotAfter(i, h) == (i + 1) % tables[h].capacity

\* The thresholds: half full asks for a larger table, three quarters is too full.
HalfFull(n, h) == n >= tables[h].capacity \div 2

\* Faulty variant: the table may be filled up.
BugFits(n, h) == TRUE

Fits(n, h) == n < (tables[h].capacity \div 2) + (tables[h].capacity \div 4)

\* The capacity, doubled until n is less than half of it: there is one such c.
NewCapacity(c, capacity, n) ==
    /\ \E k \in 1 .. n + 1 : c = capacity * 2 ^ k
    /\ n < c \div 2
    /\ c = 2 * capacity \/ n >= c \div 4

-----------------------------------------------------------------------------
(* The search, in the current table and then in every older one *)

Call(t) ==
    /\ Goto(t, "idle", "probe")
    /\ mainHash' = [mainHash EXCEPT ![t] = implicitProducerHash]
    /\ hash' = [hash EXCEPT ![t] = implicitProducerHash]
    /\ index' = [index EXCEPT ![t] = HomeSlot(t, implicitProducerHash)]
    /\ UNCHANGED <<hashedId, shared, list, creating, mine>>

ProbeTaken(t) ==
    LET h == hash[t] IN
    /\ Goto(t, "probe", "probe")
    /\ tables[h].key[index[t]] \notin {t, NoThread}
    /\ index' = [index EXCEPT ![t] = SlotAfter(index[t], h)]
    /\ UNCHANGED <<hashedId, shared, list, mainHash, hash, creating, mine>>

\* Faulty variant: a thread that is not in the current table counts as new.
BugProbeEmpty(t) ==
    /\ pc[t] = "probe" /\ tables[hash[t]].key[index[t]] = NoThread
    /\ Goto(t, "probe", "count")
    /\ index' = [index EXCEPT ![t] = 0]
    /\ hash' = [hash EXCEPT ![t] = NoTable]
    /\ UNCHANGED <<hashedId, shared, list, mainHash, creating, mine>>

\* Not in this table: on to the one before it.
ProbeEmpty(t) ==
    LET older == tables[hash[t]].prev IN
    /\ pc[t] = "probe" /\ tables[hash[t]].key[index[t]] = NoThread
    /\ hash' = [hash EXCEPT ![t] = older]
    /\ IF older = NoTable
       THEN Goto(t, "probe", "count") /\ index' = [index EXCEPT ![t] = 0]
       ELSE UNCHANGED pc /\ index' = [index EXCEPT ![t] = HomeSlot(t, older)]
    /\ UNCHANGED <<hashedId, shared, list, mainHash, creating, mine>>

\* Found; when not in the table that was current, the thread is added there.
ProbeFound(t) ==
    LET value == tables[hash[t]].value[index[t]] IN
    /\ pc[t] = "probe" /\ tables[hash[t]].key[index[t]] = t
    /\ IF hash[t] = mainHash[t]
       THEN ReturnFrom(t, "probe", value)
       ELSE /\ Goto(t, "probe", "insert")
            /\ index' = [index EXCEPT ![t] = HomeSlot(t, mainHash[t])]
            /\ hash' = [hash EXCEPT ![t] = NoTable]
            /\ producer' = [producer EXCEPT ![t] = value]
            /\ UNCHANGED <<mainHash, newCount, prevTail, mine>>
    /\ UNCHANGED <<hashedId, shared, list>>

-----------------------------------------------------------------------------
(* The thread is new: make room in the current table *)

Count(t) ==
    /\ Goto(t, "count", "grow")
    /\ implicitProducerHashCount' = implicitProducerHashCount + 1
    /\ newCount' = [newCount EXCEPT ![t] = implicitProducerHashCount + 1]
    /\ UNCHANGED <<hashedId, tables, implicitProducerHash, resizeInProgress, list,
                   searching, producer, prevTail, mine>>

\* test_and_set of the resize lock, for a thread that needs it.  The current table
\* only changes under the lock.
TryLock(t) ==
    /\ pc[t] = "grow"
    /\ IF HalfFull(newCount[t], mainHash[t]) /\ ~resizeInProgress
       THEN /\ Goto(t, "grow", "resize")
            /\ resizeInProgress' = TRUE
            /\ mainHash' = [mainHash EXCEPT ![t] = implicitProducerHash]
       ELSE /\ Goto(t, "grow", "fits")
            /\ UNCHANGED <<resizeInProgress, mainHash>>
    /\ UNCHANGED <<hashedId, tables, implicitProducerHash,
                   implicitProducerHashCount, list, hash, index, creating, mine>>

\* A larger table becomes the current one.
Allocate(t) ==
    LET main == mainHash[t]
        old == tables[main].capacity
    IN  /\ Goto(t, "resize", "unlock")
        /\ HalfFull(newCount[t], main)
        /\ \E c \in 2 * old .. 4 * old * (newCount[t] + 1) :
              NewCapacity(c, old, newCount[t]) /\ tables' = Append(tables, EmptyTable(c, main))
        /\ implicitProducerHash' = Len(tables) + 1
        /\ mainHash' = [mainHash EXCEPT ![t] = Len(tables) + 1]
        /\ UNCHANGED <<hashedId, implicitProducerHashCount, resizeInProgress, list,
                       hash, index, creating, mine>>

\* Another thread has done it by now.
NoNeedToResize(t) ==
    /\ Goto(t, "resize", "unlock")
    /\ ~HalfFull(newCount[t], mainHash[t])
    /\ UNCHANGED <<hashedId, shared, list, searching, creating, mine>>

\* malloc returns nullptr: the thread is not counted any more ...
AllocationFails(t) ==
    /\ Goto(t, "resize", "failed")
    /\ HalfFull(newCount[t], mainHash[t])
    /\ implicitProducerHashCount' = implicitProducerHashCount - 1
    /\ UNCHANGED <<hashedId, tables, implicitProducerHash, resizeInProgress, list,
                   searching, creating, mine>>

\* Faulty variant: the failing thread keeps the lock.
BugUnlockAndFail(t) ==
    /\ ReturnFrom(t, "failed", NoProducer)
    /\ UNCHANGED <<hashedId, shared, list>>

\* ... and, the lock released, its message is refused.
UnlockAndFail(t) ==
    /\ resizeInProgress' = FALSE
    /\ ReturnFrom(t, "failed", NoProducer)
    /\ UNCHANGED <<hashedId, tables, implicitProducerHash,
                   implicitProducerHashCount, list>>

Unlock(t) ==
    /\ Goto(t, "unlock", "fits")
    /\ resizeInProgress' = FALSE
    /\ UNCHANGED <<hashedId, tables, implicitProducerHash,
                   implicitProducerHashCount, list, searching, creating, mine>>

\* The old table is too full and another thread is allocating: wait for it.
Wait(t) ==
    /\ Goto(t, "fits", "grow")
    /\ ~Fits(newCount[t], mainHash[t])
    /\ mainHash' = [mainHash EXCEPT ![t] = implicitProducerHash]
    /\ UNCHANGED <<hashedId, shared, list, hash, index, creating, mine>>

-----------------------------------------------------------------------------
(* recycle_or_create_producer: no producer of rtlog's queue is ever inactive, so  *)
(* there is none to recycle                                                       *)

CreateProducer(t) ==
    /\ Goto(t, "fits", "list")
    /\ Fits(newCount[t], mainHash[t])
    /\ producerCount' = producerCount + 1
    /\ producer' = [producer EXCEPT ![t] = producerCount + 1]
    /\ nextProducer' = Append(nextProducer, NoProducer)
    /\ UNCHANGED <<hashedId, shared, producerListTail, searching, newCount, prevTail,
                   mine>>

\* Faulty variant: the thread stays counted.
BugCreationFails(t) ==
    /\ ReturnFrom(t, "fits", NoProducer)
    /\ Fits(newCount[t], mainHash[t])
    /\ UNCHANGED <<hashedId, shared, list>>

\* No memory for the sub-queue: the message is refused.
CreationFails(t) ==
    /\ ReturnFrom(t, "fits", NoProducer)
    /\ Fits(newCount[t], mainHash[t])
    /\ implicitProducerHashCount' = implicitProducerHashCount - 1
    /\ UNCHANGED <<hashedId, tables, implicitProducerHash, resizeInProgress, list>>

LoadListTail(t) ==
    /\ Goto(t, "list", "link")
    /\ prevTail' = [prevTail EXCEPT ![t] = producerListTail]
    /\ UNCHANGED <<hashedId, shared, list, searching, newCount, producer, mine>>

Linked(t) ==
    /\ Goto(t, "link", "insert")
    /\ nextProducer' = [nextProducer EXCEPT ![producer[t]] = prevTail[t]]
    /\ producerListTail' = producer[t]
    /\ index' = [index EXCEPT ![t] = HomeSlot(t, mainHash[t])]
    /\ UNCHANGED prevTail

\* Faulty variant: the list's tail is stored whatever it is by now.
BugLinkProducer(t) ==
    /\ Linked(t)
    /\ UNCHANGED <<hashedId, shared, producerCount, mainHash, hash, newCount,
                   producer, mine>>

\* compare_exchange of the list's tail, or its new value is loaded.
LinkProducer(t) ==
    /\ pc[t] = "link"
    /\ IF producerListTail = prevTail[t]
       THEN Linked(t)
       ELSE /\ Goto(t, "link", "link")
            /\ prevTail' = [prevTail EXCEPT ![t] = producerListTail]
            /\ UNCHANGED <<nextProducer, producerListTail, index>>
    /\ UNCHANGED <<hashedId, shared, producerCount, mainHash, hash, newCount,
                   producer, mine>>

-----------------------------------------------------------------------------
(* Into the table the thread takes for the current one *)

InsertTaken(t) ==
    /\ Goto(t, "insert", "insert")
    /\ tables[mainHash[t]].key[index[t]] # NoThread
    /\ index' = [index EXCEPT ![t] = SlotAfter(index[t], mainHash[t])]
    /\ UNCHANGED <<hashedId, shared, list, mainHash, hash, creating, mine>>

Insert(t) ==
    LET h == mainHash[t] i == index[t] IN
    /\ pc[t] = "insert" /\ tables[h].key[i] = NoThread
    /\ tables' = [tables EXCEPT ![h].key[i] = t, ![h].value[i] = producer[t]]
    /\ ReturnFrom(t, "insert", producer[t])
    /\ UNCHANGED <<hashedId, implicitProducerHash, implicitProducerHashCount,
                   resizeInProgress, list>>

-----------------------------------------------------------------------------
InsideCall(t) ==
    \/ ProbeTaken(t) \/ ProbeEmpty(t) \/ ProbeFound(t)
    \/ Count(t) \/ TryLock(t) \/ Allocate(t) \/ NoNeedToResize(t)
    \/ AllocationFails(t) \/ UnlockAndFail(t) \/ Unlock(t) \/ Wait(t)
    \/ CreateProducer(t) \/ CreationFails(t) \/ LoadListTail(t) \/ LinkProducer(t)
    \/ InsertTaken(t) \/ Insert(t)

Next == \E t \in Threads : Call(t) \/ InsideCall(t)

Spec == Init /\ [][Next]_vars

-----------------------------------------------------------------------------
(* Properties *)

Steps == {"idle", "probe", "count", "grow", "resize", "unlock", "failed", "fits",
          "list", "link", "insert"}
Tables == 1 .. Len(tables)
Producers == 1 .. producerCount

\* Type invariant of the tables, the producer list and the threads.
TypeOK ==
    /\ hashedId \in [Threads -> HashedIds]
    /\ \A h \in Tables :
          LET slots == 0 .. tables[h].capacity - 1 IN
          /\ tables[h].prev \in 0 .. h - 1
          /\ tables[h].key \in [slots -> Threads \cup {NoThread}]
          /\ tables[h].value \in [slots -> Producers \cup {NoProducer}]
    /\ implicitProducerHash \in Tables /\ implicitProducerHashCount \in Nat
    /\ resizeInProgress \in BOOLEAN
    /\ producerCount \in Nat /\ producerListTail \in Producers \cup {NoProducer}
    /\ nextProducer \in [Producers -> Producers \cup {NoProducer}]
    /\ pc \in [Threads -> Steps]
    /\ mainHash \in [Threads -> Tables \cup {NoTable}]
    /\ hash \in [Threads -> Tables \cup {NoTable}]
    /\ newCount \in [Threads -> Nat]
    /\ index \in [Threads -> Nat]
    /\ \A t \in Threads :
          /\ pc[t] = "probe" => index[t] < tables[hash[t]].capacity
          /\ pc[t] = "insert" => index[t] < tables[mainHash[t]].capacity
    /\ producer \in [Threads -> Producers \cup {NoProducer}]
    /\ prevTail \in [Threads -> Producers \cup {NoProducer}]
    /\ mine \in [Threads -> Producers \cup {NoProducer}]

\* A thread gets the same sub-queue on every call, however often the table was
\* replaced meanwhile ("this same thread would have added it previously to one of
\* the tables that we traversed"), and shares it with no other thread: were it
\* otherwise, its messages could overtake each other, or two threads would enqueue
\* where one only may.
OneSubQueuePerThread ==
    [][\A t \in Threads :
          mine[t] # NoProducer =>
              /\ mine'[t] = mine[t]
              /\ \A u \in Threads \ {t} : mine'[u] # mine[t]]_vars

\* A search ends: at least one slot of every table stays free, although threads add
\* themselves to the newest table without being counted again and threads that were
\* counted give up ("every subsequent table implicitly reserves space for all
\* previous tables").
FreeSlotInEveryTable ==
    \A h \in Tables : \E i \in 0 .. tables[h].capacity - 1 : tables[h].key[i] = NoThread

\* Threads that have a place in a table, or are about to take one, are counted, and
\* no other: failures give the count back.
Registering == {t \in Threads : \/ pc[t] \in {"grow", "resize", "unlock", "fits",
                                             "list", "link", "insert"}
                                \/ mine[t] # NoProducer}
CountIsExact == implicitProducerHashCount = Cardinality(Registering)

\* The producers on the list: the least set that has its tail and, of each of its
\* producers, the next one.
ListClosed(S) ==
    /\ producerListTail \in S \cup {NoProducer}
    /\ \A n \in S : nextProducer[n] \in S \cup {NoProducer}
Listed == {n \in Producers : \A S \in SUBSET Producers : ListClosed(S) => n \in S}

\* The consumer finds every thread's sub-queue in the list of producers, whichever
\* threads were adding theirs at the same time.
EveryProducerListed ==
    \A t \in Threads : mine[t] # NoProducer => mine[t] \in Listed

\* The resize lock is taken exactly while one thread is inside the locked part, on
\* its failure path too: were it left behind, threads that find the table three
\* quarters full would spin for ever, and with two threads inside, one's table would
\* replace the other's.
LockIsHeld ==
    LET inside == {t \in Threads : pc[t] \in {"resize", "unlock", "failed"}}
    IN  Cardinality(inside) = IF resizeInProgress THEN 1 ELSE 0

\* The inductive invariant of the proofs.  The slots from i on and before j, around
\* the end of the table:
Slots(h) == 0 .. tables[h].capacity - 1
Between(i, j, h) ==
    {k \in Slots(h) : IF i <= j THEN i <= k /\ k < j ELSE i <= k \/ k < j}
IsIn(t, h) == \E i \in Slots(h) : tables[h].key[i] = t

\* A search for t comes from its home slot to slot i of table h without an empty slot
\* on the way; it has not found t.
Passed(t, h, i) ==
    \A j \in Between(HomeSlot(t, h), i, h) : tables[h].key[j] # NoThread
Searched(t, h, i) ==
    \A j \in Between(HomeSlot(t, h), i, h) : tables[h].key[j] \notin {t, NoThread}

TablesRight ==
    /\ implicitProducerHash = Len(tables)
    /\ \A h \in Tables :
          /\ tables[h].prev = h - 1
          /\ tables[h].capacity > 0
          /\ \A g \in 1 .. h : tables[g].capacity <= tables[h].capacity
          /\ \A i \in Slots(h) :
                LET t == tables[h].key[i] IN
                t # NoThread =>
                    /\ mine[t] # NoProducer /\ tables[h].value[i] = mine[t]
                    /\ Passed(t, h, i)
                    /\ \A j \in Slots(h) : tables[h].key[j] = t => j = i

LocalsRight(t) ==
    /\ mine[t] # NoProducer => \E h \in Tables : IsIn(t, h)
    /\ pc[t] # "idle" => mainHash[t] \in Tables
    /\ pc[t] \in {"probe", "insert"} => \A h \in Tables : IsIn(t, h) => h <= mainHash[t]
    /\ pc[t] = "probe" =>
          /\ hash[t] \in 1 .. mainHash[t] /\ index[t] \in Slots(hash[t])
          /\ \A h \in hash[t] + 1 .. mainHash[t] : ~IsIn(t, h)
          /\ Searched(t, hash[t], index[t])
    /\ pc[t] \in Steps \ {"idle", "probe", "insert"} => mine[t] = NoProducer
    /\ pc[t] = "resize" => mainHash[t] = implicitProducerHash
    /\ pc[t] \in {"list", "link"} =>
          producer[t] \in Producers /\ nextProducer[producer[t]] = NoProducer
    /\ pc[t] = "insert" =>
          /\ index[t] \in Slots(mainHash[t]) /\ ~IsIn(t, mainHash[t])
          /\ producer[t] \in Listed
          /\ mine[t] \in {NoProducer, producer[t]}
          /\ Passed(t, mainHash[t], index[t])

\* No two threads have a producer in common, not even one that is being created.
Owned(t) == {mine[t], producer[t]} \ {NoProducer}
OwnersApart == \A t, u \in Threads : t # u => Owned(t) \cap Owned(u) = {}

\* When the last of the first m threads was counted the others were counted already:
\* of the threads counted with m or less, and of those that have a place in table h
\* or were let into it, there are m at most.
Entered(t, h) ==
    \/ \E g \in 1 .. h : IsIn(t, g)
    \/ pc[t] \in {"list", "link", "insert"} /\ mine[t] = NoProducer /\ mainHash[t] <= h
CountedBy(t, m) == pc[t] \in {"grow", "resize", "unlock", "fits"} /\ newCount[t] <= m
AtMost(m, h) == {t \in Threads : Entered(t, h) \/ CountedBy(t, m)}
RoomReserved ==
    \A h \in Tables : \A m \in 0 .. Cardinality(Threads) :
        ~Fits(m + 1, h) => Cardinality(AtMost(m, h)) <= m

HashInv ==
    /\ TypeOK /\ TablesRight /\ OwnersApart /\ CountIsExact /\ LockIsHeld
    /\ EveryProducerListed /\ RoomReserved
    /\ \A t \in Threads : LocalsRight(t)

=============================================================================
